---- MODULE Spec2Model ----
(***************************************************************************)
(* objmapper: backend manager (lib/backend/backend.c) on top of the        *)
(* global / per-backend hash indexes (lib/index/index.c).                  *)
(*                                                                         *)
(* The C functions are operators over a memory record M that holds the     *)
(* heap of index entries, the two kinds of hash tables, the manager's      *)
(* counters and the kernel objects the code touches (descriptor table,     *)
(* directory entries, inodes).  An operator returns the memory after the   *)
(* call (.M) and the call's results.  One action is one API call.          *)
(* Further parts: threads inside the manager at the same time, and the     *)
(* wire protocol (lib/protocol/protocol.c) with server.c's request loop.   *)
(***************************************************************************)
EXTENDS Integers, Sequences, FiniteSets, TLC

(***************************************************************************)
(* Bounds of the model                                                     *)
(***************************************************************************)
IndexBuckets == 2
MaxEntries == 3
MaxHandles == 3
MaxFds == 5
MaxInodes == 3
MaxLen == 1
MaxRef == 3
MaxOps == 4
NThreads == 2
MaxCalls == 2
MaxReqs == 4
MaxSegs == 2
CacheCapacity == 1
VariantSlots == 2

(***************************************************************************)
(* Program constants                                                       *)
(***************************************************************************)
BackendIndexBuckets == 262144
FNV_OFFSET == 140069
FNV_PRIME == 435
OBJM_MAX_URI_LEN == 4096
OBJM_CAP_OOO_REPLIES == 1
OBJM_CAP_SEGMENTED_DELIVERY == 16
\* watermarks in hundredths, the hotness threshold in thousandths
high_watermark == 85
low_watermark == 70
cache_threshold == 700
\* "OBJIDX"
INDEX_MAGIC == <<79, 66, 74, 73, 68, 88>>
INDEX_VERSION == 2
INDEX_FLAG_EPHEMERAL == 1
INDEX_FLAG_PERSISTENT == 2
OBJM_PAYLOAD_DESCRIPTOR_VERSION == 1
OBJM_MAX_VARIANTS == 8
OBJM_ENCODING == [IDENTITY |-> 0, GZIP |-> 1, BROTLI |-> 2, ZSTD |-> 3, CUSTOM |-> 255]
\* the capability bits of a variant
OBJM_VCAP == [IDENTITY |-> 1, GZIP |-> 2, RANGE_READY |-> 8]
OBJM_REQ_PRIORITY == 2
OBJM_MODE_FDPASS == 49
OBJM_MODE_COPY == 50
OBJM_VERSION_2 == 2

\* uint64_t arithmetic is kept to its low 20 bits: buckets are taken from the
\* low bits only, and the low bits of x * prime depend on the low bits of x.
HashMod == 2 ^ 20

\* "/a" and "/e" as byte strings
URI_A == <<47, 97>>
URI_E == <<47, 101>>
URIs == {URI_A, URI_E}

\* the byte a holder writes: each handle has its own
Mark(h) == h

RECURSIVE Xor(_, _)
Xor(a, b) ==
    IF a = 0 THEN b
    ELSE IF b = 0 THEN a
    ELSE (((a % 2) + (b % 2)) % 2) + (2 * Xor(a \div 2, b \div 2))

RECURSIVE FnvFrom(_, _, _)
FnvFrom(hash, str, i) ==
    IF i > Len(str) THEN hash
    ELSE FnvFrom((Xor(hash, str[i]) * FNV_PRIME) % HashMod, str, i + 1)

index_hash_string(str) == FnvFrom(FNV_OFFSET, str, 1)

RECURSIVE index_next_power_of_2_from(_, _)
index_next_power_of_2_from(p, n) ==
    IF p >= n THEN p ELSE index_next_power_of_2_from(2 * p, n)

\* n = 0 wraps around to 0 in the code's bit arithmetic
index_next_power_of_2(n) == IF n = 0 THEN 0 ELSE index_next_power_of_2_from(1, n)

GNumBuckets == index_next_power_of_2(IndexBuckets)
BNumBuckets == index_next_power_of_2(BackendIndexBuckets)
\* the hashes of the model's URIs, computed once
HashOf == [u \in URIs |-> index_hash_string(u)]
GBucket(uri) == HashOf[uri] % GNumBuckets
BBucket(uri) == HashOf[uri] % BNumBuckets

GBuckets == 0 .. (GNumBuckets - 1)
\* only the per-backend buckets some URI of the model hashes to are stored
BBuckets == {BBucket(u) : u \in URIs}

\* the backend registrations of server.c init_backends
ProfileMemory ==
    [type |-> "memory",
     flags |-> {"EPHEMERAL_ONLY", "ENABLED", "MIGRATION_SRC", "MIGRATION_DST"}]
ProfileSsd ==
    [type |-> "ssd",
     flags |-> {"PERSISTENT", "ENABLED", "MIGRATION_SRC", "MIGRATION_DST"}]
\* backend ids are the positions in registration order
ServerBackends == <<ProfileMemory, ProfileSsd>>
BackendIds == 0 .. (Len(ServerBackends) - 1)
EntryIds == 1 .. MaxEntries
HandleIds == 1 .. MaxHandles
\* descriptor numbers, counted from the lowest one free at start
Fds == 1 .. MaxFds
InodeIds == 1 .. MaxInodes
Paths == BackendIds \X URIs

NULL == 0

Min(S) == CHOOSE x \in S : \A y \in S : x <= y

(***************************************************************************)
(* Kernel objects: descriptor table, directory entries, inodes             *)
(***************************************************************************)
ClosedFd == [ino |-> 0, mode |-> "-", off |-> 0]

IsOpen(M, fd) == fd \in Fds /\ M.fdt[fd].ino # 0

InodeUsed(M, i) ==
    \/ \E p \in Paths : M.fs[p] = i
    \/ \E f \in Fds : M.fdt[f].ino = i

FreeFds(M) == {f \in Fds : M.fdt[f].ino = 0}
FreeInodes(M) == {i \in InodeIds : ~InodeUsed(M, i)}

\* an inode nothing refers to is reclaimed
Reclaim(M) ==
    [M EXCEPT !.ino = [i \in InodeIds |-> IF InodeUsed(M, i) THEN M.ino[i] ELSE <<>>]]

\* open(2): lowest free descriptor number; ENOENT without O_CREAT
sys_open(M, path, creat, trunc, mode) ==
    IF FreeFds(M) = {} THEN [M |-> M, fd |-> -1]
    ELSE IF M.fs[path] = 0 /\ (~creat \/ FreeInodes(M) = {}) THEN [M |-> M, fd |-> -1]
    ELSE LET i == IF M.fs[path] # 0 THEN M.fs[path] ELSE Min(FreeInodes(M))
             fd == Min(FreeFds(M))
         IN [M |-> [M EXCEPT !.fs[path] = i,
                             !.ino[i] = IF trunc \/ M.fs[path] = 0 THEN <<>> ELSE @,
                             !.fdt[fd] = [ino |-> i, mode |-> mode, off |-> 0]],
             fd |-> fd]

\* close(2): EBADF on a number that is not open
sys_close(M, fd) ==
    IF IsOpen(M, fd)
    THEN Reclaim([M EXCEPT !.fdt[fd] = ClosedFd,
                           !.nclosed = @ \cup {fd}])
    ELSE M

sys_unlink(M, path) == Reclaim([M EXCEPT !.fs[path] = 0])

Take(s, n) == SubSeq(s, 1, IF n < Len(s) THEN n ELSE Len(s))

\* the bytes of old with data written at offset off; a write past the end
\* leaves a hole that reads as zero bytes
WriteAt(old, off, data) ==
    LET padded == IF off > Len(old)
                  THEN old \o [i \in 1 .. (off - Len(old)) |-> 0]
                  ELSE old
    IN SubSeq(padded, 1, off) \o data
         \o SubSeq(padded, off + Len(data) + 1, Len(padded))

\* sendfile(2) with an explicit offset of 0: copies up to count bytes
sys_sendfile(M, out_fd, in_fd, count) ==
    IF ~IsOpen(M, in_fd) \/ ~IsOpen(M, out_fd) THEN [M |-> M, ret |-> -1]
    ELSE IF M.fdt[in_fd].mode = "w" \/ M.fdt[out_fd].mode = "r" THEN [M |-> M, ret |-> -1]
    ELSE LET data == Take(M.ino[M.fdt[in_fd].ino], count)
             o == M.fdt[out_fd]
         IN [M |-> [M EXCEPT !.ino[o.ino] = WriteAt(@, o.off, data),
                             !.fdt[out_fd].off = o.off + Len(data)],
             ret |-> Len(data)]

\* write(2) of one byte at the descriptor's offset
sys_write(M, fd, byte) ==
    IF ~IsOpen(M, fd) \/ M.fdt[fd].mode = "r" THEN [M |-> M, ret |-> -1]
    ELSE LET o == M.fdt[fd]
         IN [M |-> [M EXCEPT !.ino[o.ino] = WriteAt(@, o.off, <<byte>>),
                             !.fdt[fd].off = o.off + 1],
             ret |-> 1]

\* what lseek(fd, 0) + read(fd) to end of file returns; <<-1>> on EBADF
sys_read_all(M, fd) ==
    IF ~IsOpen(M, fd) \/ M.fdt[fd].mode = "w" THEN <<-1>>
    ELSE M.ino[M.fdt[fd].ino]

(***************************************************************************)
(* Index entries (index.c)                                                 *)
(***************************************************************************)
\* a variant slot and a payload descriptor as calloc leaves them; of the
\* descriptor's OBJM_MAX_VARIANTS slots the first VariantSlots are kept
NoVariant ==
    [variant_id |-> <<>>, capabilities |-> 0, encoding |-> 0, logical_length |-> 0,
     storage_length |-> 0, range_granularity |-> 0, is_primary |-> 0]
NoPayload ==
    [version |-> 0, variant_count |-> 0, manifest_flags |-> 0,
     variants |-> [i \in 1 .. VariantSlots |-> NoVariant]]

NoEntry ==
    [alloc |-> FALSE, uri |-> <<>>, backend_id |-> 0, path |-> <<0, <<>>>>,
     eph |-> FALSE, fd |-> -1, fd_refcount |-> 0, fd_generation |-> 0,
     entry_refcount |-> 0, next |-> NULL, size_bytes |-> 0, payload |-> NoPayload]

\* the descriptor is copied whole into the entry and out of it
index_entry_set_payload(M, e, payload) == [M EXCEPT !.ent[e].payload = payload]
index_entry_get_payload(entry) == entry.payload

\* one primary identity variant of the object's size
index_entry_seed_identity_payload(M, e, size_bytes) ==
    [M EXCEPT !.ent[e].payload =
        [version |-> OBJM_PAYLOAD_DESCRIPTOR_VERSION, variant_count |-> 1,
         manifest_flags |-> 0,
         variants |-> [i \in 1 .. VariantSlots |->
                          IF i = 1
                          THEN [variant_id |-> <<105>>,
                                capabilities |-> OBJM_VCAP.IDENTITY,
                                encoding |-> OBJM_ENCODING.IDENTITY,
                                logical_length |-> size_bytes,
                                storage_length |-> size_bytes,
                                range_granularity |-> 0, is_primary |-> 1]
                          ELSE NoVariant]]]

FreeSlots(M) == {e \in EntryIds : ~M.ent[e].alloc}

\* a dereference of an entry pointer: undefined once the entry is freed
Touch(M, e) ==
    IF M.ent[e].alloc THEN M ELSE [M EXCEPT !.st = "ub"]

index_entry_create(M, uri, backend_id, path) ==
    LET e == Min(FreeSlots(M))
    IN [M |-> [M EXCEPT !.ent[e] = [NoEntry EXCEPT !.alloc = TRUE, !.uri = uri,
                                                  !.backend_id = backend_id,
                                                  !.path = path,
                                                  !.entry_refcount = 1]],
        entry |-> e]

index_entry_get(M, e) ==
    [Touch(M, e) EXCEPT !.ent[e].entry_refcount = @ + 1]

index_entry_put(M, e) ==
    LET Free(M1) ==
            [(IF M1.ent[e].fd >= 0 THEN sys_close(M1, M1.ent[e].fd) ELSE M1)
                EXCEPT !.ent[e].alloc = FALSE]
        Sub(M0) ==
            IF M0.ent[e].entry_refcount = 1
            THEN Free([M0 EXCEPT !.ent[e].entry_refcount = @ - 1])
            ELSE [M0 EXCEPT !.ent[e].entry_refcount = @ - 1]
    IN Sub(Touch(M, e))

index_entry_open_fd(M, e) ==
    LET Opened(o) ==
            IF o.fd < 0 THEN [M |-> M, ret |-> -1]
            ELSE [M |-> [o.M EXCEPT !.ent[e].fd = o.fd], ret |-> 0]
    IN IF M.ent[e].fd >= 0 THEN [M |-> M, ret |-> 0]
       ELSE Opened(sys_open(M, M.ent[e].path, FALSE, FALSE, "r"))

index_entry_close_fd(M, e) ==
    IF M.ent[e].fd_refcount > 0 THEN M
    ELSE IF M.ent[e].fd >= 0
         THEN sys_close([M EXCEPT !.ent[e].fd = -1, !.ent[e].fd_generation = @ + 1],
                        M.ent[e].fd)
         ELSE M

(***************************************************************************)
(* Descriptor references (fd_ref_t)                                        *)
(***************************************************************************)
NullRef == [entry |-> NULL, fd |-> -1, generation |-> 0]

fd_ref_acquire(M, ref) ==
    LET Slow(o) ==
            IF o.ret < 0 THEN [M |-> o.M, ref |-> ref, ret |-> -1]
            ELSE [M |-> [o.M EXCEPT !.ent[ref.entry].fd_refcount = @ + 1],
                  ref |-> [ref EXCEPT !.fd = o.M.ent[ref.entry].fd,
                                   !.generation = o.M.ent[ref.entry].fd_generation],
                  ret |-> o.M.ent[ref.entry].fd]
        Fast(M0) ==
            IF M0.ent[ref.entry].fd >= 0
            THEN [M |-> [M0 EXCEPT !.ent[ref.entry].fd_refcount = @ + 1],
                  ref |-> [ref EXCEPT !.fd = M0.ent[ref.entry].fd,
                                   !.generation = M0.ent[ref.entry].fd_generation],
                  ret |-> M0.ent[ref.entry].fd]
            ELSE Slow(index_entry_open_fd(M0, ref.entry))
    IN IF ref.entry = NULL THEN [M |-> M, ref |-> ref, ret |-> -1]
       ELSE Fast(Touch(M, ref.entry))

fd_ref_release(M, ref) ==
    IF ref.entry = NULL THEN M
    ELSE index_entry_put(
             IF ref.fd >= 0
             THEN [Touch(sys_close(M, ref.fd), ref.entry)
                     EXCEPT !.ent[ref.entry].fd_refcount = @ - 1]
             ELSE M,
             ref.entry)

(***************************************************************************)
(* Collision chains.  Both kinds of index link an entry through the one    *)
(* next field of index_entry_t.                                            *)
(***************************************************************************)
\* the while loops over a chain: the entry holding uri and its predecessor
\* (NULL: the bucket head); e = -1 when the loop never meets NULL or runs
\* into freed memory
RECURSIVE ChainWalk(_, _, _, _, _)
ChainWalk(M, prev, e, uri, fuel) ==
    IF e = NULL THEN [e |-> NULL, prev |-> NULL]
    ELSE IF fuel = 0 \/ ~M.ent[e].alloc THEN [e |-> -1, prev |-> NULL]
    ELSE IF M.ent[e].uri = uri THEN [e |-> e, prev |-> prev]
    ELSE ChainWalk(M, e, M.ent[e].next, uri, fuel - 1)

ChainFind(M, head, uri) == ChainWalk(M, NULL, head, uri, MaxEntries)

\* the call does not return: it spins on a cyclic chain or reads freed memory
Hang(M) == [M EXCEPT !.st = "ub"]

(***************************************************************************)
(* Global index                                                            *)
(***************************************************************************)
\* a variant that hands out the entry's cached descriptor instead of opening
\* the file
global_index_lookup_cached(M, uri) ==
    LET Found(M1, e) ==
            [M |-> IF M1.ent[e].fd >= 0
                   THEN [M1 EXCEPT !.ent[e].fd_refcount = @ + 1]
                   ELSE M1,
             ret |-> 0, ref |-> [entry |-> e, fd |-> M1.ent[e].fd, generation |-> 0]]
        Walked(w) ==
            IF w.e = -1 THEN [M |-> Hang(M), ret |-> -1, ref |-> NullRef]
            ELSE IF w.e = NULL THEN [M |-> M, ret |-> -1, ref |-> NullRef]
            ELSE Found(index_entry_get(M, w.e), w.e)
    IN Walked(ChainFind(M, M.gb[GBucket(uri)], uri))

global_index_lookup(M, uri) ==
    LET Counted(o, e) ==
            [M |-> IF o.fd >= 0
                   THEN [o.M EXCEPT !.ent[e].fd_refcount = @ + 1]
                   ELSE o.M,
             ret |-> 0, ref |-> [entry |-> e, fd |-> o.fd, generation |-> 0]]
        ReadOnly(o1, M1, e) ==
            Counted(IF o1.fd < 0
                    THEN sys_open(M1, M1.ent[e].path, FALSE, FALSE, "r")
                    ELSE o1,
                    e)
        Found(M1, e) ==
            ReadOnly(sys_open(M1, M1.ent[e].path, FALSE, FALSE, "rw"), M1, e)
        Walked(w) ==
            IF w.e = -1 THEN [M |-> Hang(M), ret |-> -1, ref |-> NullRef]
            ELSE IF w.e = NULL THEN [M |-> M, ret |-> -1, ref |-> NullRef]
            ELSE Found(index_entry_get(M, w.e), w.e)
    IN Walked(ChainFind(M, M.gb[GBucket(uri)], uri))

global_index_insert(M, e) ==
    LET Walked(w, b) ==
            IF w.e = -1 THEN [M |-> Hang(M), ret |-> -1]
            ELSE IF w.e # NULL THEN [M |-> M, ret |-> -1]
            ELSE [M |-> [M EXCEPT !.ent[e].next = M.gb[b],
                                  !.gb[b] = e,
                                  !.gnum = @ + 1],
                  ret |-> 0]
    IN Walked(ChainFind(M, M.gb[GBucket(M.ent[e].uri)], M.ent[e].uri),
              GBucket(M.ent[e].uri))

global_index_remove(M, uri) ==
    LET Put(M3, e) ==
            [M |-> [index_entry_put(M3, e) EXCEPT !.gnum = @ - 1], ret |-> 0]
        CloseFd(M1, e) ==
            Put(IF M1.ent[e].fd >= 0
                THEN sys_close([M1 EXCEPT !.ent[e].fd = -1], M1.ent[e].fd)
                ELSE [M1 EXCEPT !.ent[e].fd = -1],
                e)
        Walked(w, b) ==
            IF w.e = -1 THEN [M |-> Hang(M), ret |-> -1]
            ELSE IF w.e = NULL THEN [M |-> M, ret |-> -1]
            ELSE CloseFd(IF w.prev = NULL
                         THEN [M EXCEPT !.gb[b] = M.ent[w.e].next]
                         ELSE [M EXCEPT !.ent[w.prev].next = M.ent[w.e].next],
                         w.e)
    IN Walked(ChainFind(M, M.gb[GBucket(uri)], uri), GBucket(uri))

global_index_update_backend(M, uri, backend_id, backend_path) ==
    LET Update(M2, ref) ==
            [M |-> fd_ref_release([M2 EXCEPT !.ent[ref.entry].path = backend_path,
                                             !.ent[ref.entry].backend_id = backend_id],
                                  ref),
             ret |-> 0]
        Looked(l) ==
            IF l.ret < 0 THEN [M |-> l.M, ret |-> -1]
            ELSE Update(IF l.M.ent[l.ref.entry].fd >= 0
                        THEN sys_close([l.M EXCEPT
                                          !.ent[l.ref.entry].fd = -1,
                                          !.ent[l.ref.entry].fd_generation = @ + 1],
                                       l.M.ent[l.ref.entry].fd)
                        ELSE [l.M EXCEPT !.ent[l.ref.entry].fd = -1],
                        l.ref)
    IN Looked(global_index_lookup(M, uri))

(***************************************************************************)
(* Per-backend index                                                       *)
(***************************************************************************)
\* backend is the index into mgr->backends, or -1 for no backend
backend_mark_index_dirty(M, backend) ==
    IF backend < 0 THEN M ELSE [M EXCEPT !.dirty[backend] = 1]

backend_index_insert(M, bid, e) ==
    [index_entry_get(M, e) EXCEPT !.ent[e].next = M.bb[bid][BBucket(M.ent[e].uri)],
                                  !.bb[bid][BBucket(M.ent[e].uri)] = e,
                                  !.bnum[bid] = @ + 1,
                                  !.dirty[bid] = 1]

backend_index_remove(M, bid, uri) ==
    LET Unlinked(M1, e) ==
            [M |-> [index_entry_put(M1, e) EXCEPT !.bnum[bid] = @ - 1,
                                                  !.dirty[bid] = 1],
             ret |-> 0]
        Walked(w, b) ==
            IF w.e = -1 THEN [M |-> Hang(M), ret |-> -1]
            ELSE IF w.e = NULL THEN [M |-> M, ret |-> -1]
            ELSE Unlinked(IF w.prev = NULL
                          THEN [M EXCEPT !.bb[bid][b] = M.ent[w.e].next]
                          ELSE [M EXCEPT !.ent[w.prev].next = M.ent[w.e].next],
                          w.e)
    IN Walked(ChainFind(M, M.bb[bid][BBucket(uri)], uri), BBucket(uri))

(***************************************************************************)
(* Backend manager (backend.c)                                             *)
(***************************************************************************)
backend_manager_get_backend(M, backend_id) ==
    IF backend_id >= 0 /\ backend_id < Len(M.backends) THEN backend_id ELSE -1

BackendFlags(M, backend_id) == M.backends[backend_id + 1].flags

MountPath(backend_id, uri) == <<backend_id, uri>>

\* a variant that places every object as if no hint were given
backend_create_object_unhinted(M, req) ==
    LET Fail(MM) == [M |-> MM, ret |-> -1, ref |-> NullRef]
        Stored(M4, e, fd) ==
            [M |-> index_entry_get(M4, e), ret |-> 0,
             ref |-> [entry |-> e, fd |-> fd, generation |-> 0]]
        Linked(M2, backend_id, e, fd) ==
            Stored([M2 EXCEPT !.object_count[backend_id] = @ + 1,
                              !.total_objects = @ + 1,
                              !.ent[e].fd = fd,
                              !.ent[e].fd_refcount = 1],
                   e, fd)
        Inserted(gi, backend_id, e, fd, fs_path) ==
            IF gi.ret < 0
            THEN Fail(sys_unlink(sys_close(index_entry_put(gi.M, e), fd), fs_path))
            ELSE Linked(backend_index_insert(gi.M, backend_id, e), backend_id, e, fd)
        Made(c, backend_id, fd, fs_path) ==
            Inserted(global_index_insert(
                         [c.M EXCEPT !.ent[c.entry].size_bytes = 0,
                                     !.ent[c.entry].eph = req.ephemeral],
                         c.entry),
                     backend_id, c.entry, fd, fs_path)
        Opened(o, backend_id, fs_path) ==
            IF o.fd < 0 THEN Fail(o.M)
            ELSE IF FreeSlots(o.M) = {}
            THEN Fail(sys_unlink(sys_close(o.M, o.fd), fs_path))
            ELSE Made(index_entry_create(o.M, req.uri, backend_id, fs_path),
                      backend_id, o.fd, fs_path)
        On(backend_id) ==
            IF backend_id < 0 THEN Fail(M)
            ELSE IF backend_manager_get_backend(M, backend_id) < 0 THEN Fail(M)
            ELSE IF "ENABLED" \notin BackendFlags(M, backend_id) THEN Fail(M)
            ELSE IF req.ephemeral /\ "EPHEMERAL_ONLY" \notin BackendFlags(M, backend_id)
            THEN Fail(M)
            ELSE Opened(sys_open(M, MountPath(backend_id, req.uri), TRUE, TRUE, "rw"),
                        backend_id, MountPath(backend_id, req.uri))
    IN On(IF req.ephemeral THEN M.ephemeral_backend_id ELSE M.default_backend_id)

backend_create_object(M, req) ==
    LET Fail(MM) == [M |-> MM, ret |-> -1, ref |-> NullRef]
        Stored(M4, e, fd) ==
            [M |-> index_entry_get(M4, e), ret |-> 0,
             ref |-> [entry |-> e, fd |-> fd, generation |-> 0]]
        Linked(M2, backend_id, e, fd) ==
            Stored([M2 EXCEPT !.object_count[backend_id] = @ + 1,
                              !.total_objects = @ + 1,
                              !.ent[e].fd = fd,
                              !.ent[e].fd_refcount = 1],
                   e, fd)
        Inserted(gi, backend_id, e, fd, fs_path) ==
            IF gi.ret < 0
            THEN Fail(sys_unlink(sys_close(index_entry_put(gi.M, e), fd), fs_path))
            ELSE Linked(backend_index_insert(gi.M, backend_id, e), backend_id, e, fd)
        Made(c, backend_id, fd, fs_path) ==
            Inserted(global_index_insert(
                         [c.M EXCEPT !.ent[c.entry].size_bytes = 0,
                                     !.ent[c.entry].eph = req.ephemeral],
                         c.entry),
                     backend_id, c.entry, fd, fs_path)
        Opened(o, backend_id, fs_path) ==
            IF o.fd < 0 THEN Fail(o.M)
            ELSE IF FreeSlots(o.M) = {}
            THEN Fail(sys_unlink(sys_close(o.M, o.fd), fs_path))
            ELSE Made(index_entry_create(o.M, req.uri, backend_id, fs_path),
                      backend_id, o.fd, fs_path)
        On(backend_id) ==
            IF backend_id < 0 THEN Fail(M)
            ELSE IF backend_manager_get_backend(M, backend_id) < 0 THEN Fail(M)
            ELSE IF "ENABLED" \notin BackendFlags(M, backend_id) THEN Fail(M)
            ELSE IF req.ephemeral /\ "EPHEMERAL_ONLY" \notin BackendFlags(M, backend_id)
            THEN Fail(M)
            ELSE Opened(sys_open(M, MountPath(backend_id, req.uri), TRUE, TRUE, "rw"),
                        backend_id, MountPath(backend_id, req.uri))
    IN On(IF req.backend_id < 0
          THEN (IF req.ephemeral THEN M.ephemeral_backend_id
                                 ELSE M.default_backend_id)
          ELSE req.backend_id)

backend_get_object(M, uri) == global_index_lookup(M, uri)

backend_delete_object(M, uri) ==
    LET Removed(M3, ref) ==
            [M |-> fd_ref_release(global_index_remove(M3, uri).M, ref), ret |-> 0]
        Unlinked(M1, backend_id, ref) ==
            Removed(backend_index_remove(
                        [M1 EXCEPT !.object_count[backend_id] = @ - 1,
                                   !.used_bytes[backend_id] =
                                       @ - M1.ent[ref.entry].size_bytes,
                                   !.total_objects = @ - 1,
                                   !.total_bytes = @ - M1.ent[ref.entry].size_bytes],
                        backend_id, uri).M,
                    ref)
        Looked(l) ==
            IF l.ret < 0 THEN [M |-> l.M, ret |-> -1]
            ELSE IF backend_manager_get_backend(l.M, l.M.ent[l.ref.entry].backend_id) < 0
            THEN [M |-> fd_ref_release(l.M, l.ref), ret |-> -1]
            ELSE Unlinked(sys_unlink(l.M, l.M.ent[l.ref.entry].path),
                          l.M.ent[l.ref.entry].backend_id, l.ref)
    IN Looked(global_index_lookup(M, uri))

\* one regular file met by scan_dir_recursive
ScanFile(M, backend_id, uri) ==
    LET Inserted(gi, e) ==
            index_entry_put(
                IF gi.ret >= 0
                THEN [backend_index_insert(gi.M, backend_id, e)
                         EXCEPT !.object_count[backend_id] = @ + 1,
                                !.used_bytes[backend_id] = @ + gi.M.ent[e].size_bytes,
                                !.total_objects = @ + 1,
                                !.total_bytes = @ + gi.M.ent[e].size_bytes]
                ELSE gi.M,
                e)
        Made(c, full_path) ==
            Inserted(global_index_insert(
                         [c.M EXCEPT !.ent[c.entry].size_bytes =
                                         Len(M.ino[M.fs[full_path]]),
                                     !.ent[c.entry].eph =
                                         ("EPHEMERAL_ONLY" \in BackendFlags(M, backend_id))],
                         c.entry),
                     c.entry)
    IN IF M.fs[MountPath(backend_id, uri)] = 0 \/ FreeSlots(M) = {} THEN M
       ELSE Made(index_entry_create(M, uri, backend_id, MountPath(backend_id, uri)),
                 MountPath(backend_id, uri))

RECURSIVE ScanDir(_, _, _, _)
ScanDir(M, backend_id, order, i) ==
    IF i > Len(order) THEN M
    ELSE ScanDir(ScanFile(M, backend_id, order[i]), backend_id, order, i + 1)

\* order: the order in which readdir returns the directory's names
backend_manager_scan(M, backend_id, order) ==
    LET Counted(M1) == [M |-> M1, ret |-> M1.total_objects - M.total_objects]
    IN IF backend_manager_get_backend(M, backend_id) < 0 THEN [M |-> M, ret |-> -1]
       ELSE IF "ENABLED" \notin BackendFlags(M, backend_id) THEN [M |-> M, ret |-> -1]
       ELSE Counted(ScanDir(M, backend_id, order, 1))

\* the deltas of the two counters are added as signed numbers: new_size -
\* old_size is what the code adds or, negated, subtracts
backend_update_size(M, uri, new_size) ==
    LET Seeded(M1, e) ==
            IF new_size > 0 /\ M1.ent[e].payload.variant_count = 0
            THEN backend_mark_index_dirty(
                     index_entry_seed_identity_payload(M1, e, new_size),
                     M1.ent[e].backend_id)
            ELSE IF new_size # M.ent[e].size_bytes
            THEN backend_mark_index_dirty(M1, M1.ent[e].backend_id)
            ELSE M1
        Looked(l) ==
            IF l.ret < 0 THEN [M |-> l.M, ret |-> -1]
            ELSE IF backend_manager_get_backend(l.M, l.M.ent[l.ref.entry].backend_id) < 0
            THEN [M |-> fd_ref_release(l.M, l.ref), ret |-> -1]
            ELSE [M |-> fd_ref_release(
                            Seeded([l.M EXCEPT
                                      !.ent[l.ref.entry].size_bytes = new_size,
                                      !.used_bytes[l.M.ent[l.ref.entry].backend_id] =
                                          @ + (new_size
                                                 - l.M.ent[l.ref.entry].size_bytes),
                                      !.total_bytes =
                                          @ + (new_size
                                                 - l.M.ent[l.ref.entry].size_bytes)],
                                   l.ref.entry),
                            l.ref),
                  ret |-> 0]
    IN Looked(global_index_lookup(M, uri))

\* a variant that removes the source file before the copy and then fails
backend_migrate_object_unlink_first(M, uri, target_backend_id) ==
    LET Looked(l) ==
            IF l.ret < 0 THEN [M |-> l.M, ret |-> -1]
            ELSE [M |-> fd_ref_release(sys_unlink(l.M, l.M.ent[l.ref.entry].path),
                                       l.ref),
                  ret |-> -1]
    IN Looked(global_index_lookup(M, uri))

backend_migrate_object(M, uri, target_backend_id) ==
    LET dst_path == MountPath(target_backend_id, uri)
        Unlink(M8, src_entry) ==
            [M |-> sys_unlink(Touch(M8, src_entry), M8.ent[src_entry].path), ret |-> 0]
        Insert(M6, src_entry) ==
            Unlink([backend_index_insert(M6, target_backend_id, src_entry)
                      EXCEPT !.object_count[target_backend_id] = @ + 1,
                             !.used_bytes[target_backend_id] =
                                 @ + M6.ent[src_entry].size_bytes],
                   src_entry)
        Retarget(M4, src_entry) ==
            Insert(global_index_update_backend(
                       [Touch(M4, src_entry)
                           EXCEPT !.ent[src_entry].path = dst_path,
                                  !.ent[src_entry].backend_id = target_backend_id],
                       uri, target_backend_id, dst_path).M,
                   src_entry)
        Move(M2, src_entry, src_backend_id) ==
            Retarget([backend_index_remove(M2, src_backend_id, uri).M
                        EXCEPT !.object_count[src_backend_id] = @ - 1,
                               !.used_bytes[src_backend_id] =
                                   @ - M2.ent[src_entry].size_bytes],
                     src_entry)
        Copied(M2, copied, src_entry, src_backend_id) ==
            IF copied # M2.ent[src_entry].size_bytes
            THEN [M |-> sys_unlink(M2, dst_path), ret |-> -1]
            ELSE Move(M2, src_entry, src_backend_id)
        Sent(sf, ref, dst_fd, src_backend_id) ==
            Copied(Touch(sys_close(fd_ref_release(sf.M, ref), dst_fd), ref.entry),
                   sf.ret, ref.entry, src_backend_id)
        Acquired(a, dst_fd, src_backend_id) ==
            IF a.ret < 0
            THEN [M |-> fd_ref_release(sys_unlink(sys_close(a.M, dst_fd), dst_path),
                                       a.ref),
                  ret |-> -1]
            ELSE Sent(sys_sendfile(a.M, dst_fd, a.ret, a.M.ent[a.ref.entry].size_bytes),
                      a.ref, dst_fd, src_backend_id)
        Created(d, ref, src_backend_id) ==
            IF d.fd < 0 THEN [M |-> fd_ref_release(d.M, ref), ret |-> -1]
            ELSE Acquired(fd_ref_acquire(d.M, ref), d.fd, src_backend_id)
        Checked(MM, ref, src_backend_id) ==
            IF src_backend_id = target_backend_id
            THEN [M |-> fd_ref_release(MM, ref), ret |-> -1]
            ELSE IF MM.ent[ref.entry].eph
                    /\ (\/ backend_manager_get_backend(MM, target_backend_id) < 0
                        \/ "EPHEMERAL_ONLY" \notin BackendFlags(MM, target_backend_id))
            THEN [M |-> fd_ref_release(MM, ref), ret |-> -1]
            ELSE IF backend_manager_get_backend(MM, src_backend_id) < 0
                    \/ backend_manager_get_backend(MM, target_backend_id) < 0
            THEN [M |-> fd_ref_release(MM, ref), ret |-> -1]
            ELSE IF "MIGRATION_SRC" \notin BackendFlags(MM, src_backend_id)
                    \/ "MIGRATION_DST" \notin BackendFlags(MM, target_backend_id)
            THEN [M |-> fd_ref_release(MM, ref), ret |-> -1]
            ELSE Created(sys_open(MM, dst_path, TRUE, TRUE, "w"), ref, src_backend_id)
        Looked(l) ==
            IF l.ret < 0 THEN [M |-> l.M, ret |-> -1]
            ELSE Checked(l.M, l.ref, l.M.ent[l.ref.entry].backend_id)
    IN Looked(global_index_lookup(M, uri))

(***************************************************************************)
(* State                                                                   *)
(***************************************************************************)
VARIABLES
    backends,              \* mgr->backends[0 .. num_backends-1]
    default_backend_id,    \* mgr->default_backend_id
    ephemeral_backend_id,  \* mgr->ephemeral_backend_id
    ent,                   \* the heap of index_entry_t
    gb,                    \* mgr->global_index->buckets
    bb,                    \* backend->index->buckets, per backend
    gnum,                  \* mgr->global_index->num_entries
    bnum,                  \* backend->index->num_entries
    dirty,                 \* backend->index->dirty
    object_count,          \* backend->object_count
    total_objects,         \* mgr->total_objects
    used_bytes,            \* backend->used_bytes
    total_bytes,           \* mgr->total_bytes
    fdt,                   \* the process's descriptor table
    fs,                    \* directory entries: path -> inode
    ino,                   \* inode -> file body
    st,                    \* "run", or "ub" once behaviour is undefined
    handles,               \* the fd_ref_t values callers hold
    life,                  \* per URI: created / deleted since (history)
    last,                  \* the last call, when it was a migration (history)
    trip,                    \* progress of a create-write-release-get run (history)
    ops                    \* number of API calls made so far

\* threads inside the manager at the same time, on objects of their own
VARIABLES
    rwlock,                \* backend->rwlock: the thread holding it as writer, or 0
    obj,                   \* per URI: the index entry and what the indexes hold of it
    files,                 \* the paths at which a file of these objects exists
    thr,                   \* per thread: the call it is in and that call's locals
    settled,               \* per URI: where the last finished migration left it (history)
    calls                  \* number of calls the threads have begun

managerVars == <<backends, default_backend_id, ephemeral_backend_id, ent, gb, bb, gnum,
                 bnum, dirty, object_count, total_objects, used_bytes, total_bytes, fdt, fs,
                 ino, st, handles, life, last, trip, ops>>
threadVars == <<rwlock, obj, files, thr, settled, calls>>

\* one connection on the server's socket
VARIABLES
    srv,                   \* the serving side: its stage and its objm_connection_t
    cli,                   \* the client's objm_connection_t and what its caller awaits
    c2s,                   \* frames written by the client and not yet read
    s2c,                   \* frames written by the server and not yet read
    wlog                   \* what the last pass of the serving loop did (history)

wireVars == <<srv, cli, c2s, s2c, wlog>>

\* threads of a program that uses the manager from several threads, and the
\* cache promoter
VARIABLES
    work,                  \* per thread: the call it is in and that call's locals
    cache,                 \* the promoter: mgr->cache_* and where its thread stands
    snap                   \* per backend: the bytes of its snapshot file (none: no file)

serviceVars == <<work, cache, snap>>

vars == <<managerVars, threadVars, wireVars, serviceVars>>

\* the memory the C functions work on
Mem ==
    [backends |-> backends, default_backend_id |-> default_backend_id,
     ephemeral_backend_id |-> ephemeral_backend_id, ent |-> ent, gb |-> gb,
     bb |-> bb, gnum |-> gnum, bnum |-> bnum, dirty |-> dirty,
     object_count |-> object_count,
     total_objects |-> total_objects, used_bytes |-> used_bytes,
     total_bytes |-> total_bytes, fdt |-> fdt, fs |-> fs, ino |-> ino,
     st |-> st, nclosed |-> {}]

NoHandle ==
    [entry |-> NULL, fd |-> -1, generation |-> 0, live |-> FALSE, mig |-> FALSE,
     dead |-> FALSE]
NoLast == [op |-> "-", uri |-> <<>>, arg |-> -1, ret |-> 0, body |-> <<>>, src |-> -1]
NoTrip == [stage |-> "-", uri |-> <<>>, h |-> 0, data |-> <<>>, read |-> <<>>]

HeldHandles == {h \in HandleIds : handles[h] # NoHandle}
FreeHandles == HandleIds \ HeldHandles

\* the threads, and the objects they work on: two URIs that fall into
\* different buckets of every index, so that each is alone on its chains
Threads == 1 .. NThreads
URI_B == <<47, 98>>
ThreadURIs == {URI_A, URI_B}

\* entry->backend_path after free() and before the next assignment
Dangling == -1

\* an index entry as the threads see it: path is the backend under whose
\* mount point backend_path lies, fd tells whether entry->fd is -1 ("none"),
\* an open descriptor ("open") or the number of a closed one ("stale"), and
\* in is the set of backend indexes the entry is linked in; moved tells
\* whether a migration of it was ever begun (history)
NoObj ==
    [alloc |-> FALSE, eph |-> FALSE, backend_id |-> -1, path |-> Dangling,
     entry_refcount |-> 0, fd |-> "none", in |-> {}, moved |-> FALSE]

\* a thread outside every call
IdleThread ==
    [pc |-> "idle", op |-> "-", uri |-> <<>>, target |-> -1, src |-> -1,
     held |-> FALSE, fd |-> -1, seen_path |-> Dangling, seen_id |-> -1,
     torn |-> FALSE, exp |-> -1]

ThreadsInit ==
    /\ rwlock = [b \in BackendIds |-> 0]
    /\ obj = [u \in ThreadURIs |-> NoObj]
    /\ files = {}
    /\ thr = [t \in Threads |-> IdleThread]
    /\ settled = [u \in ThreadURIs |-> -1]
    /\ calls = 0

(***************************************************************************)
(* The wire protocol: constants and the two ends of a connection           *)
(***************************************************************************)
OBJM_MAGIC == <<79, 66, 74, 77>>
OBJM_STATUS ==
    [OK |-> 0, NOT_FOUND |-> 1, URI_TOO_LONG |-> 4, UNSUPPORTED_OP |-> 5,
     STORAGE_ERROR |-> 17, PROTOCOL_ERROR |-> 32]
OBJM_MSG ==
    [REQUEST |-> 1, RESPONSE |-> 2, CLOSE |-> 3, CLOSE_ACK |-> 4,
     SEGMENTED_RESPONSE |-> 5]
OBJM_SEG ==
    [MAX_SEGMENTS |-> 64, TYPE_INLINE |-> 0, TYPE_FD |-> 1, TYPE_SPLICE |-> 2,
     FLAG_FIN |-> 1, FLAG_REUSE_FD |-> 2]

\* a & b on unsigned values
RECURSIVE BitAnd(_, _)
BitAnd(a, b) ==
    IF a = 0 \/ b = 0 THEN 0
    ELSE ((a % 2) * (b % 2)) + (2 * BitAnd(a \div 2, b \div 2))

\* what each program passes to objm_server_handshake: server.c, and the
\* example server that offers out-of-order replies
ServerHello(kind) ==
    IF kind = "server"
    THEN [capabilities |-> 0, max_pipeline |-> 1, backend_parallelism |-> 2]
    ELSE [capabilities |-> 19, max_pipeline |-> 100, backend_parallelism |-> 3]

\* what clients pass to objm_client_hello
ClientHellos ==
    {[capabilities |-> 3, max_pipeline |-> 50],
     [capabilities |-> 19, max_pipeline |-> 2],
     [capabilities |-> 1, max_pipeline |-> 300]}

\* request ids callers give their requests, and the slots a client may park
\* replies in
RequestIds == 1 .. MaxReqs
NoResp == [request_id |-> -1]

\* no program runs yet: srv is the serving side (todo: requests read and
\* not yet answered, why: how the loop was left), cli the objm_connection_t
\* of objm_client_create with what its caller has outstanding (out), has
\* read off the socket (rd) and was handed (done)
WiresInit ==
    /\ srv = [st |-> "start", kind |-> "-", version |-> 0, capabilities |-> 0,
              max_pipeline |-> 0, backend_parallelism |-> 0, todo |-> {},
              why |-> "-"]
    /\ cli = [st |-> "new", version |-> 0,
              hello |-> [capabilities |-> 0, max_pipeline |-> 0],
              capabilities |-> 0, max_pipeline |-> 0, pending_capacity |-> 0,
              pending_responses |-> [i \in 0 .. MaxReqs |-> NoResp],
              out |-> {}, rd |-> {}, done |-> {}, want |-> -1, reads |-> 0,
              sent |-> 0]
    /\ c2s = <<>>
    /\ s2c = <<>>
    /\ wlog = <<>>

\* a thread outside every call (done: it has made the call of this run)
IdleWork ==
    [pc |-> "idle", done |-> FALSE, uri |-> <<>>, ref |-> NullRef, backend |-> -1,
     old_size |-> 0, new_size |-> 0, tmp |-> <<>>]

\* the promoter's part of the manager after init_backends chose the cache
\* backend: no thread yet; stop is where a caller of backend_stop_caching
\* stands, polls the number of times the thread's loop tested the flag
\* since the stop began (history)
NoPromoter ==
    [cache_backend_id |-> 0, cache_running |-> 0, thread |-> "none",
     stop |-> "idle", polls |-> 0, seen |-> "none", accessed |-> {}]

\* files found under the mount points at start: none, or one left by an
\* earlier run
InitFiles ==
    {[p \in Paths |-> 0], [p \in Paths |-> IF p = <<1, URI_A>> THEN 1 ELSE 0]}

\* the manager as server.c init_backends sets it up: backend 0 the memory
\* tier, backend 1 the persistent tier, before the start-up scans
InitDesignated(default, ephemeral, cache_id) ==
    /\ backends = ServerBackends
    /\ default_backend_id = default
    /\ ephemeral_backend_id = ephemeral
    /\ ent = [e \in EntryIds |-> NoEntry]
    /\ gb = [b \in GBuckets |-> NULL]
    /\ bb = [i \in BackendIds |-> [b \in BBuckets |-> NULL]]
    /\ gnum = 0
    /\ bnum = [i \in BackendIds |-> 0]
    /\ dirty = [i \in BackendIds |-> 0]
    /\ object_count = [i \in BackendIds |-> 0]
    /\ total_objects = 0
    /\ used_bytes = [i \in BackendIds |-> 0]
    /\ total_bytes = 0
    /\ fdt = [f \in Fds |-> ClosedFd]
    /\ fs \in InitFiles
    /\ ino = [i \in InodeIds |->
                IF i = 1 /\ (\E p \in Paths : fs[p] = 1) THEN <<9>> ELSE <<>>]
    /\ st = "run"
    /\ handles = [h \in HandleIds |-> NoHandle]
    /\ life = [u \in URIs |-> "-"]
    /\ last = NoLast
    /\ trip = NoTrip
    /\ ops = 0
    /\ ThreadsInit
    /\ WiresInit
    /\ work = [t \in Threads |-> IdleWork]
    /\ cache = [NoPromoter EXCEPT !.cache_backend_id = cache_id]
    /\ snap = [i \in BackendIds |-> <<>>]

Init == InitDesignated(1, 0, 0)

\* the manager's state after a call that left memory M, with the callers'
\* handles hs
Store(M, hs, l, lf, c) ==
    /\ ops' = ops + 1
    /\ IF M.st # "run"
       THEN /\ st' = M.st
            /\ UNCHANGED <<backends, default_backend_id, ephemeral_backend_id, ent, gb,
                           bb, gnum, bnum, dirty, object_count, total_objects, used_bytes,
                           total_bytes, fdt, fs, ino, handles, life, last, trip>>
       ELSE /\ st' = "run"
            /\ backends' = M.backends
            /\ default_backend_id' = M.default_backend_id
            /\ ephemeral_backend_id' = M.ephemeral_backend_id
            /\ ent' = [e \in EntryIds |-> IF M.ent[e].alloc THEN M.ent[e] ELSE NoEntry]
            /\ gb' = M.gb
            /\ bb' = M.bb
            /\ gnum' = M.gnum
            /\ bnum' = M.bnum
            /\ dirty' = M.dirty
            /\ object_count' = M.object_count
            /\ total_objects' = M.total_objects
            /\ used_bytes' = M.used_bytes
            /\ total_bytes' = M.total_bytes
            /\ fdt' = M.fdt
            /\ fs' = M.fs
            /\ ino' = M.ino
            /\ handles' = [h \in HandleIds |->
                             IF hs[h] = NoHandle THEN NoHandle
                             ELSE [hs[h] EXCEPT
                                     !.live = IF handles[h] # NoHandle
                                                 /\ hs[h].fd \in M.nclosed
                                              THEN FALSE ELSE @,
                                     !.dead = @ \/ ~M.ent[hs[h].entry].alloc]]
            /\ life' = lf
            /\ last' = l
            /\ trip' = c

\* the state after an API call made directly on the manager
Commit(M, hs, l, lf, c) ==
    /\ Store(M, hs, l, lf, c)
    /\ UNCHANGED <<threadVars, wireVars, serviceVars>>

\* a call can be made: the process is alive and the run's budget is not used up
Running == st = "run" /\ ops < MaxOps

(***************************************************************************)
(* Object operations                                                       *)
(***************************************************************************)
\* a call that is passed a handle whose entry has been freed
Undefined == Commit([Mem EXCEPT !.st = "ub"], handles, last, life, trip)

\* the entry a lookup of uri reaches (NULL: none)
Lookup(uri) ==
    LET w == ChainFind(Mem, gb[GBucket(uri)], uri) IN IF w.e < 0 THEN NULL ELSE w.e

NewHandle(ref) ==
    [entry |-> ref.entry, fd |-> ref.fd, generation |-> ref.generation,
     live |-> ref.fd >= 0, mig |-> FALSE,
     dead |-> FALSE]

Create ==
    /\ Running
    /\ FreeHandles # {} /\ FreeSlots(Mem) # {}
    /\ FreeFds(Mem) # {} /\ FreeInodes(Mem) # {}
    /\ \E uri \in URIs, hint \in {-1} \cup BackendIds, ephemeral \in BOOLEAN :
         \E r \in {backend_create_object(Mem, [uri |-> uri, backend_id |-> hint,
                                                ephemeral |-> ephemeral])},
            h \in {Min(FreeHandles)} :
            Commit(r.M,
                   IF r.ret = 0 THEN [handles EXCEPT ![h] = NewHandle(r.ref)]
                                ELSE handles,
                   NoLast,
                   IF r.ret = 0 THEN [life EXCEPT ![uri] = "present"] ELSE life,
                   IF r.ret = 0
                   THEN [NoTrip EXCEPT !.stage = "created", !.uri = uri, !.h = h]
                   ELSE NoTrip)

Get ==
    /\ Running
    /\ FreeHandles # {} /\ FreeFds(Mem) # {}
    /\ \E uri \in URIs :
         \E r \in {backend_get_object(Mem, uri)}, h \in {Min(FreeHandles)} :
            Commit(r.M,
                   IF r.ret = 0 THEN [handles EXCEPT ![h] = NewHandle(r.ref)]
                                ELSE handles,
                   NoLast, life,
                   IF trip.stage = "released" /\ trip.uri = uri
                   THEN [trip EXCEPT !.stage = "got",
                                   !.h = IF r.ret = 0 THEN h ELSE 0,
                                   !.read = IF r.ret = 0
                                            THEN sys_read_all(r.M, r.ref.fd)
                                            ELSE <<-1>>]
                   ELSE NoTrip)

\* the holder of a handle writes one byte, its own mark, through its descriptor
Write ==
    /\ Running
    /\ \E h \in HeldHandles :
         \E fd \in {handles[h].fd}, r \in {sys_write(Mem, handles[h].fd, Mark(h))} :
            /\ IsOpen(Mem, fd) => fdt[fd].off < MaxLen
            /\ Commit(r.M, handles, NoLast, life,
                      IF r.ret = 1 /\ trip.h = h /\ trip.stage \in {"created", "written"}
                      THEN [trip EXCEPT !.stage = "written",
                                      !.data = Append(@, Mark(h))]
                      ELSE NoTrip)

Release ==
    /\ Running
    /\ \E h \in HeldHandles :
         IF handles[h].dead THEN Undefined
         ELSE \E M \in {fd_ref_release(Mem, [entry |-> handles[h].entry,
                                               fd |-> handles[h].fd,
                                               generation |-> handles[h].generation])} :
                 Commit(M, [handles EXCEPT ![h] = NoHandle], NoLast, life,
                        IF trip.h = h /\ trip.stage = "written"
                        THEN [trip EXCEPT !.stage = "released", !.h = 0]
                        ELSE NoTrip)

\* the holder of a handle calls fd_ref_acquire on it (test_backend.c:149)
Acquire ==
    /\ Running
    /\ FreeFds(Mem) # {}
    /\ \E h \in HeldHandles :
         IF handles[h].dead THEN Undefined
         ELSE \E r \in {fd_ref_acquire(Mem, [entry |-> handles[h].entry,
                                               fd |-> handles[h].fd,
                                               generation |-> handles[h].generation])} :
                 /\ ent[handles[h].entry].fd_refcount < MaxRef
                 /\ Commit(r.M,
                           [handles EXCEPT ![h].fd = r.ref.fd,
                                           ![h].generation = r.ref.generation,
                                           ![h].live = IF r.ret >= 0
                                                       THEN IsOpen(r.M, r.ref.fd)
                                                       ELSE @],
                           NoLast, life, NoTrip)

UpdateSize ==
    /\ Running
    /\ FreeFds(Mem) # {}
    /\ \E uri \in URIs, new_size \in 0 .. MaxLen :
         \E r \in {backend_update_size(Mem, uri, new_size)} :
            Commit(r.M, handles, NoLast, life, NoTrip)

Delete ==
    /\ Running
    /\ FreeFds(Mem) # {}
    /\ \E uri \in URIs :
         \E r \in {backend_delete_object(Mem, uri)} :
            Commit(r.M, handles, NoLast,
                   IF r.ret = 0 THEN [life EXCEPT ![uri] = "deleted"] ELSE life,
                   NoTrip)

Migrate ==
    /\ Running
    /\ Cardinality(FreeFds(Mem)) >= 3 /\ FreeInodes(Mem) # {}
    /\ \E uri \in URIs, target \in BackendIds :
         \E e \in {Lookup(uri)}, r \in {backend_migrate_object(Mem, uri, target)} :
            /\ e # NULL => ent[e].fd_refcount < MaxRef
            /\ Commit(r.M,
                      [h \in HandleIds |->
                         IF r.ret = 0 /\ handles[h].live /\ handles[h].entry = e
                         THEN [handles[h] EXCEPT !.mig = TRUE]
                         ELSE handles[h]],
                      IF r.ret = 0
                      THEN [op |-> "migrate", uri |-> uri, arg |-> target, ret |-> 0,
                            body |-> IF fs[ent[e].path] # 0
                                     THEN ino[fs[ent[e].path]] ELSE <<-1>>,
                            src |-> ent[e].backend_id]
                      ELSE [NoLast EXCEPT !.op = "migrate", !.ret = r.ret,
                                          !.uri = IF e # NULL THEN uri ELSE <<>>,
                                          !.arg = IF e # NULL THEN target ELSE -1],
                      life, NoTrip)

Orders == {<<URI_A, URI_E>>, <<URI_E, URI_A>>}

Scan ==
    /\ Running
    /\ \E backend_id \in BackendIds, order \in Orders :
         \E r \in {backend_manager_scan(Mem, backend_id, order)} :
            /\ Cardinality(FreeSlots(Mem))
                 >= Cardinality({u \in URIs : fs[MountPath(backend_id, u)] # 0})
            /\ Commit(r.M, handles, NoLast,
                      [u \in URIs |->
                         IF r.ret >= 0 /\ Lookup(u) = NULL
                            /\ ChainFind(r.M, r.M.gb[GBucket(u)], u).e > 0
                         THEN "present" ELSE life[u]],
                      NoTrip)

Next ==
    \/ Create
    \/ Get
    \/ Write
    \/ Release
    \/ Acquire
    \/ UpdateSize
    \/ Delete
    \/ Migrate
    \/ Scan

Spec == Init /\ [][Next]_vars

(***************************************************************************)
(* Threads: lookups and migrations running at the same time.  A lookup     *)
(* takes no lock; a migration takes the two backend locks only for its     *)
(* index and entry updates.  Each action is one step of one thread between *)
(* two points at which another thread can run.                             *)
(***************************************************************************)
\* atomic_fetch_add(&entry->entry_refcount, 1)
entry_get(o) == [o EXCEPT !.entry_refcount = @ + 1]

\* a put that forgets the decrement
entry_put_leak(o) == o

\* atomic_fetch_sub(&entry->entry_refcount, 1); the last reference frees
entry_put(o) ==
    IF o.entry_refcount = 1 THEN NoObj ELSE [o EXCEPT !.entry_refcount = @ - 1]

\* open(entry->backend_path): the backend whose file the descriptor is on, -1
\* when open fails; reading a freed path can name any file or none
OpenSides(o, u, fl) ==
    IF o.path = Dangling THEN {-1} \cup {b \in BackendIds : <<b, u>> \in fl}
    ELSE {IF <<o.path, u>> \in fl THEN o.path ELSE -1}

\* the objects the threads find: one made on the persistent tier, one made
\* on the memory tier, neither ephemeral
ThreadCreates == {<<URI_A, 1, FALSE>>, <<URI_B, 0, FALSE>>}

\* backend_create_object as one call; the creator keeps its handle: one
\* reference from index_entry_create, one of the backend index, one of the
\* handle
ThreadCreate(u, b, eph) ==
    /\ ~obj[u].alloc
    /\ ~(eph /\ "EPHEMERAL_ONLY" \notin BackendFlags(Mem, b))
    /\ obj' = [obj EXCEPT ![u] =
                 [alloc |-> TRUE, eph |-> eph, backend_id |-> b, path |-> b,
                  entry_refcount |-> 3, fd |-> "open", in |-> {b},
                  moved |-> FALSE]]
    /\ files' = files \cup {<<b, u>>}
    /\ UNCHANGED <<rwlock, thr, settled, calls, managerVars, wireVars, serviceVars>>

\* global_index_lookup up to the reference on the entry it found
LookupFind(t, op, u, g) ==
    /\ thr[t].pc = "idle"
    /\ calls < MaxCalls
    /\ obj[u].alloc
    /\ obj' = [obj EXCEPT ![u] = entry_get([@ EXCEPT !.moved = @ \/ op = "migrate"])]
    /\ thr' = [thr EXCEPT ![t] =
                 [IdleThread EXCEPT !.pc = "lk_open", !.op = op, !.uri = u,
                                    !.target = g, !.held = TRUE,
                                    !.exp = settled[u]]]
    /\ calls' = calls + 1
    /\ UNCHANGED <<rwlock, files, settled, managerVars, wireVars, serviceVars>>

\* backend_get_object enters its lookup
GetBegin(t, u) == LookupFind(t, "get", u, -1)

\* backend_migrate_object enters its lookup
MigrateBegin(t, u, g) == LookupFind(t, "migrate", u, g)

\* global_index_lookup reads entry->backend_path and opens it
LookupOpen(t) ==
    /\ thr[t].pc = "lk_open"
    /\ \E side \in OpenSides(obj[thr[t].uri], thr[t].uri, files) :
          thr' = [thr EXCEPT ![t].fd = side,
                             ![t].seen_path = obj[thr[t].uri].path,
                             ![t].torn = (obj[thr[t].uri].path = Dangling),
                             ![t].pc = IF thr[t].op = "get" THEN "g_id"
                                       ELSE "m_prepare"]
    /\ UNCHANGED <<rwlock, obj, files, settled, calls, managerVars, wireVars, serviceVars>>

\* backend_get_object reads ref_out->entry->backend_id and returns the handle
GetId(t) ==
    /\ thr[t].pc = "g_id"
    /\ thr' = [thr EXCEPT ![t].seen_id = obj[thr[t].uri].backend_id,
                          ![t].pc = "held"]
    /\ UNCHANGED <<rwlock, obj, files, settled, calls, managerVars, wireVars, serviceVars>>

\* fd_ref_release of the handle a get returned
GetRelease(t) ==
    /\ thr[t].pc = "held"
    /\ obj' = [obj EXCEPT ![thr[t].uri] = entry_put(@)]
    /\ thr' = [thr EXCEPT ![t] = IdleThread]
    /\ UNCHANGED <<rwlock, files, settled, calls, managerVars, wireVars, serviceVars>>

\* whether the copy of backend_migrate_object can go through: fd_ref_acquire
\* hands out entry->fd or opens the path, and sendfile needs an open source
CopyOutcomes(o, u, fl) ==
    IF o.fd = "open" THEN {TRUE}
    ELSE IF o.fd = "stale" THEN {TRUE, FALSE}
    ELSE {side >= 0 : side \in OpenSides(o, u, fl)}

\* backend_migrate_object from its checks to the close of the copy: none of
\* this is under a lock
MigratePrepare(t) ==
    LET u == thr[t].uri
        g == thr[t].target
        o == obj[u]
        dst == <<g, u>>
    IN /\ thr[t].pc = "m_prepare"
       /\ IF \/ o.backend_id = g
             \/ o.eph /\ "EPHEMERAL_ONLY" \notin BackendFlags(Mem, g)
             \/ "MIGRATION_SRC" \notin BackendFlags(Mem, o.backend_id)
             \/ "MIGRATION_DST" \notin BackendFlags(Mem, g)
          THEN /\ obj' = [obj EXCEPT ![u] = entry_put(@)]
               /\ thr' = [thr EXCEPT ![t] = IdleThread]
               /\ UNCHANGED files
          ELSE \E ok \in CopyOutcomes(o, u, files \cup {dst}) :
                 /\ obj' = [obj EXCEPT ![u] =
                              entry_put([@ EXCEPT !.fd = IF ok \/ o.fd = "stale"
                                                         THEN "stale" ELSE "none"])]
                 /\ IF ok
                    THEN /\ files' = files \cup {dst}
                         /\ thr' = [thr EXCEPT ![t].src = o.backend_id,
                                               ![t].held = FALSE,
                                               ![t].fd = -1,
                                               ![t].pc = "m_lock_src"]
                    ELSE /\ files' = files \ {dst}
                         /\ thr' = [thr EXCEPT ![t] = IdleThread]
       /\ UNCHANGED <<rwlock, settled, calls, managerVars, wireVars, serviceVars>>

\* pthread_rwlock_wrlock(&src_backend->rwlock)
LockSrc(t) ==
    /\ thr[t].pc = "m_lock_src"
    /\ rwlock[thr[t].src] = 0
    /\ rwlock' = [rwlock EXCEPT ![thr[t].src] = t]
    /\ thr' = [thr EXCEPT ![t].pc = "m_lock_dst"]
    /\ UNCHANGED <<obj, files, settled, calls, managerVars, wireVars, serviceVars>>

\* pthread_rwlock_wrlock(&dst_backend->rwlock)
LockDst(t) ==
    /\ thr[t].pc = "m_lock_dst"
    /\ rwlock[thr[t].target] = 0
    /\ rwlock' = [rwlock EXCEPT ![thr[t].target] = t]
    /\ thr' = [thr EXCEPT ![t].pc = "m_remove"]
    /\ UNCHANGED <<obj, files, settled, calls, managerVars, wireVars, serviceVars>>

\* backend_index_remove(src_backend->index, uri)
BackendRemove(t) ==
    LET u == thr[t].uri IN
    /\ thr[t].pc = "m_remove"
    /\ obj' = [obj EXCEPT ![u] =
                 IF thr[t].src \in @.in
                 THEN entry_put([@ EXCEPT !.in = @ \ {thr[t].src}])
                 ELSE @]
    /\ thr' = [x \in Threads |->
                 IF x = t THEN [thr[x] EXCEPT !.pc = "m_free"]
                 ELSE IF thr[x].uri = u THEN [thr[x] EXCEPT !.exp = -1]
                 ELSE thr[x]]
    /\ settled' = [settled EXCEPT ![u] = -1]
    /\ UNCHANGED <<rwlock, files, calls, managerVars, wireVars, serviceVars>>

\* free(src_entry->backend_path)
FreePath(t) ==
    /\ thr[t].pc = "m_free"
    /\ obj' = [obj EXCEPT ![thr[t].uri].path = Dangling]
    /\ thr' = [thr EXCEPT ![t].pc = "m_strdup"]
    /\ UNCHANGED <<rwlock, files, settled, calls, managerVars, wireVars, serviceVars>>

\* src_entry->backend_path = strdup(dst_path)
SetPath(t) ==
    /\ thr[t].pc = "m_strdup"
    /\ obj' = [obj EXCEPT ![thr[t].uri].path = thr[t].target]
    /\ thr' = [thr EXCEPT ![t].pc = "m_setid"]
    /\ UNCHANGED <<rwlock, files, settled, calls, managerVars, wireVars, serviceVars>>

\* src_entry->backend_id = target_backend_id
SetId(t) ==
    /\ thr[t].pc = "m_setid"
    /\ obj' = [obj EXCEPT ![thr[t].uri].backend_id = thr[t].target]
    /\ thr' = [thr EXCEPT ![t].pc = "u_lookup"]
    /\ UNCHANGED <<rwlock, files, settled, calls, managerVars, wireVars, serviceVars>>

\* global_index_update_backend: its lookup and the close of entry->fd
UpdateLookup(t) ==
    /\ thr[t].pc = "u_lookup"
    /\ obj' = [obj EXCEPT ![thr[t].uri] = entry_get([@ EXCEPT !.fd = "none"])]
    /\ thr' = [thr EXCEPT ![t].held = TRUE, ![t].pc = "u_free"]
    /\ UNCHANGED <<rwlock, files, settled, calls, managerVars, wireVars, serviceVars>>

\* global_index_update_backend: free(entry->backend_path)
UpdateFree(t) ==
    /\ thr[t].pc = "u_free"
    /\ obj' = [obj EXCEPT ![thr[t].uri].path = Dangling]
    /\ thr' = [thr EXCEPT ![t].pc = "u_set"]
    /\ UNCHANGED <<rwlock, files, settled, calls, managerVars, wireVars, serviceVars>>

\* global_index_update_backend: the new path and id, and fd_ref_release
UpdateSet(t) ==
    /\ thr[t].pc = "u_set"
    /\ obj' = [obj EXCEPT ![thr[t].uri] =
                 entry_put([@ EXCEPT !.path = thr[t].target,
                                     !.backend_id = thr[t].target])]
    /\ thr' = [thr EXCEPT ![t].held = FALSE, ![t].pc = "m_insert"]
    /\ UNCHANGED <<rwlock, files, settled, calls, managerVars, wireVars, serviceVars>>

\* backend_index_insert(dst_backend->index, src_entry)
BackendInsert(t) ==
    /\ thr[t].pc = "m_insert"
    /\ obj' = [obj EXCEPT ![thr[t].uri] =
                 entry_get([@ EXCEPT !.in = @ \cup {thr[t].target}])]
    /\ thr' = [thr EXCEPT ![t].pc = "m_unlock"]
    /\ UNCHANGED <<rwlock, files, settled, calls, managerVars, wireVars, serviceVars>>

\* the two pthread_rwlock_unlock calls
Unlock(t) ==
    /\ thr[t].pc = "m_unlock"
    /\ rwlock' = [rwlock EXCEPT ![thr[t].target] = 0, ![thr[t].src] = 0]
    /\ settled' = [settled EXCEPT ![thr[t].uri] = thr[t].target]
    /\ thr' = [thr EXCEPT ![t].pc = "m_unlink"]
    /\ UNCHANGED <<obj, files, calls, managerVars, wireVars, serviceVars>>

\* unlink(src_entry->backend_path) and return 0
Unlink(t) ==
    /\ thr[t].pc = "m_unlink"
    /\ files' = files \ {<<obj[thr[t].uri].path, thr[t].uri>>}
    /\ thr' = [thr EXCEPT ![t] = IdleThread]
    /\ UNCHANGED <<rwlock, obj, settled, calls, managerVars, wireVars, serviceVars>>

ThreadNext ==
    \/ \E c \in ThreadCreates : ThreadCreate(c[1], c[2], c[3])
    \/ \E t \in Threads, u \in ThreadURIs : GetBegin(t, u)
    \/ \E t \in Threads, u \in ThreadURIs, g \in BackendIds : MigrateBegin(t, u, g)
    \/ \E t \in Threads : LookupOpen(t)
    \/ \E t \in Threads : GetId(t)
    \/ \E t \in Threads : GetRelease(t)
    \/ \E t \in Threads : MigratePrepare(t)
    \/ \E t \in Threads : LockSrc(t)
    \/ \E t \in Threads : LockDst(t)
    \/ \E t \in Threads : BackendRemove(t)
    \/ \E t \in Threads : FreePath(t)
    \/ \E t \in Threads : SetPath(t)
    \/ \E t \in Threads : SetId(t)
    \/ \E t \in Threads : UpdateLookup(t)
    \/ \E t \in Threads : UpdateFree(t)
    \/ \E t \in Threads : UpdateSet(t)
    \/ \E t \in Threads : BackendInsert(t)
    \/ \E t \in Threads : Unlock(t)
    \/ \E t \in Threads : Unlink(t)

\* the threads start on a manager that found no files
ThreadInit == Init /\ fs = [p \in Paths |-> 0]

ThreadSpec == ThreadInit /\ [][ThreadNext]_vars

\* the threads that hold a reference on the entry of u
Holders(u) == {t \in Threads : thr[t].held /\ thr[t].uri = u}

(***************************************************************************)
(* Wire protocol (lib/protocol/protocol.c).  A frame is the record of the  *)
(* fields one call writes to the socket, b0 being its first byte; the      *)
(* metadata bytes of a response are left out.  rights holds the open file  *)
(* an SCM_RIGHTS message carries, and is empty when none is sent.  A frame *)
(* with b0 = -1 stands for the end of the stream.                          *)
(***************************************************************************)
\* v in n bytes, most significant first (htons, htonl, htobe64), and back
RECURSIVE hton(_, _)
hton(v, n) == IF n = 0 THEN <<>> ELSE Append(hton(v \div 256, n - 1), v % 256)

RECURSIVE ntoh(_)
ntoh(b) ==
    IF b = <<>> THEN 0
    ELSE (ntoh(SubSeq(b, 1, Len(b) - 1)) * 256) + b[Len(b)]

\* a server that keeps its own max_pipeline whatever the client declares
objm_server_handshake_own_pipeline(hello, frame) ==
    LET params == [version |-> OBJM_VERSION_2,
                   capabilities |-> BitAnd(ntoh(frame.capabilities), hello.capabilities),
                   max_pipeline |-> hello.max_pipeline,
                   backend_parallelism |-> hello.backend_parallelism]
    IN IF frame.b0 = 79
       THEN [ret |-> 0, params |-> params, consumed |-> TRUE,
             ack |-> <<[b0 |-> OBJM_MAGIC[1], magic |-> OBJM_MAGIC,
                        version |-> OBJM_VERSION_2,
                        capabilities |-> hton(params.capabilities, 2),
                        max_pipeline |-> hton(params.max_pipeline, 2),
                        backend_parallelism |-> params.backend_parallelism]>>]
       ELSE [ret |-> 0, consumed |-> FALSE, ack |-> <<>>,
             params |-> [version |-> 1, capabilities |-> 0, max_pipeline |-> 1,
                         backend_parallelism |-> 1]]

\* frame: the first bytes waiting on the socket, which the call peeks at
objm_server_handshake(hello, frame) ==
    LET Negotiated(client_caps, client_pipeline) ==
            [version |-> OBJM_VERSION_2,
             capabilities |-> BitAnd(client_caps, hello.capabilities),
             max_pipeline |-> IF client_pipeline < hello.max_pipeline
                              THEN client_pipeline ELSE hello.max_pipeline,
             backend_parallelism |-> hello.backend_parallelism]
        Acked(params) ==
            [ret |-> 0, params |-> params, consumed |-> TRUE,
             ack |-> <<[b0 |-> OBJM_MAGIC[1], magic |-> OBJM_MAGIC,
                        version |-> OBJM_VERSION_2,
                        capabilities |-> hton(params.capabilities, 2),
                        max_pipeline |-> hton(params.max_pipeline, 2),
                        backend_parallelism |-> params.backend_parallelism]>>]
    IN IF frame.b0 = 79
       THEN IF frame.magic # OBJM_MAGIC \/ frame.version # OBJM_VERSION_2
            THEN [ret |-> -1, consumed |-> TRUE, ack |-> <<>>,
                  params |-> [version |-> 0, capabilities |-> 0, max_pipeline |-> 0,
                              backend_parallelism |-> 0]]
            ELSE Acked(Negotiated(ntoh(frame.capabilities), ntoh(frame.max_pipeline)))
       ELSE [ret |-> 0, consumed |-> FALSE, ack |-> <<>>,
             params |-> [version |-> 1, capabilities |-> 0, max_pipeline |-> 1,
                         backend_parallelism |-> 1]]

\* ret 1: the peer closes the connection; ret -1: no request could be read
objm_server_recv_request(version, frame) ==
    LET NoReq == [id |-> 0, flags |-> 0, mode |-> 0, uri_len |-> 0, uri |-> <<>>]
        Fail == [ret |-> -1, req |-> NoReq]
        Body(id, flags, mode, uri_len) ==
            IF uri_len > OBJM_MAX_URI_LEN THEN Fail
            ELSE [ret |-> 0,
                  req |-> [id |-> id, flags |-> flags, mode |-> mode,
                           uri_len |-> uri_len, uri |-> frame.uri]]
    IN IF frame.b0 = -1 THEN Fail
       ELSE IF version = 1 THEN Body(0, 0, frame.b0, ntoh(frame.uri_len))
       ELSE IF frame.b0 = OBJM_MSG.CLOSE THEN [ret |-> 1, req |-> NoReq]
       ELSE IF frame.b0 # OBJM_MSG.REQUEST THEN Fail
       ELSE Body(ntoh(frame.request_id), frame.flags, frame.mode, ntoh(frame.uri_len))

\* one entry of the segment table as it goes on the wire
segment_entry(seg) ==
    [type |-> seg.type, flags |-> seg.flags,
     copy_length |-> hton(seg.copy_length, 4),
     logical_length |-> hton(seg.logical_length, 8),
     storage_offset |-> hton(seg.storage_offset, 8),
     storage_length |-> hton(seg.storage_length, 8)]

\* wrote: the table went out; rights: the descriptors sendmsg passed, which
\* it does only for open ones.  last_fd is set at segment i once an earlier
\* FD or SPLICE segment without REUSE_FD was seen.
send_segmented_payload(M, resp) ==
    LET segs == resp.segments
        n == Len(segs)
        HasFd(s) == s.type \in {OBJM_SEG.TYPE_FD, OBJM_SEG.TYPE_SPLICE}
        Reuse(s) == BitAnd(s.flags, OBJM_SEG.FLAG_REUSE_FD) # 0
        Owns(s) == HasFd(s) /\ ~Reuse(s)
        Carries(s) == s.type = OBJM_SEG.TYPE_INLINE /\ s.copy_length # 0
        LastFd(i) == \E j \in 1 .. (i - 1) : Owns(segs[j])
        Valid(i) ==
            IF segs[i].type = OBJM_SEG.TYPE_INLINE
            THEN /\ segs[i].copy_length = segs[i].logical_length
                 /\ (segs[i].copy_length = 0 \/ segs[i].inline_data # <<>>)
            ELSE IF HasFd(segs[i])
            THEN IF ~Reuse(segs[i]) THEN segs[i].fd >= 0 ELSE LastFd(i)
            ELSE FALSE
        owned == SelectSeq(segs, Owns)
        carried == SelectSeq(segs, Carries)
        unsent == {k \in 1 .. Len(owned) : ~IsOpen(M, owned[k].fd)}
        passed == IF unsent = {} THEN Len(owned) ELSE Min(unsent) - 1
        Fail == [ret |-> -1, wrote |-> FALSE, table |-> <<>>, inline |-> <<>>,
                 rights |-> <<>>]
    IN IF n = 0 \/ n > OBJM_SEG.MAX_SEGMENTS THEN Fail
       ELSE IF \E i \in 1 .. n : ~Valid(i) THEN Fail
       ELSE IF BitAnd(segs[n].flags, OBJM_SEG.FLAG_FIN) = 0 THEN Fail
       ELSE [ret |-> IF unsent = {} THEN 0 ELSE -1, wrote |-> TRUE,
             table |-> [i \in 1 .. n |-> segment_entry(segs[i])],
             inline |-> [k \in 1 .. Len(carried) |-> carried[k].inline_data],
             rights |-> [k \in 1 .. passed |-> M.fdt[owned[k].fd]]]

\* frame: what the peer wrote after the header; a part that is missing
\* makes recv_all or recv_fd fail
recv_segmented_payload(frame, segment_count) ==
    LET n == segment_count
        Part(name) == IF name \in DOMAIN frame THEN frame[name] ELSE <<>>
        seg == [i \in 1 .. n |->
                  [type |-> Part("table")[i].type, flags |-> Part("table")[i].flags,
                   copy_length |-> ntoh(Part("table")[i].copy_length),
                   logical_length |-> ntoh(Part("table")[i].logical_length),
                   storage_offset |-> ntoh(Part("table")[i].storage_offset),
                   storage_length |-> ntoh(Part("table")[i].storage_length)]]
        HasFd(i) == seg[i].type \in {OBJM_SEG.TYPE_FD, OBJM_SEG.TYPE_SPLICE}
        Reuse(i) == BitAnd(seg[i].flags, OBJM_SEG.FLAG_REUSE_FD) # 0
        Owns(i) == HasFd(i) /\ ~Reuse(i)
        Carries(i) == seg[i].type = OBJM_SEG.TYPE_INLINE /\ seg[i].copy_length # 0
        Valid(i) ==
            IF seg[i].type = OBJM_SEG.TYPE_INLINE
            THEN seg[i].copy_length = seg[i].logical_length
            ELSE IF HasFd(i)
            THEN /\ seg[i].copy_length = 0
                 /\ seg[i].storage_length >= seg[i].logical_length
            ELSE FALSE
        \* how many of the segments up to i satisfy Test
        Rank(i, Test(_)) == Cardinality({j \in 1 .. i : Test(j)})
        Owner(i) == CHOOSE j \in 1 .. i : Owns(j) /\ \A k \in (j + 1) .. i : ~Owns(k)
        LogicalFrom(i) ==
            LET RECURSIVE Sum(_)
                Sum(j) == IF j > n THEN 0 ELSE seg[j].logical_length + Sum(j + 1)
            IN Sum(i)
        Fail == [ret |-> -1, content_len |-> 0, segments |-> <<>>]
    IN IF n = 0 \/ n > OBJM_SEG.MAX_SEGMENTS THEN Fail
       ELSE IF Len(Part("table")) < n THEN Fail
       ELSE IF \E i \in 1 .. n : ~Valid(i) THEN Fail
       ELSE IF Len(Part("inline")) < Rank(n, Carries) THEN Fail
       ELSE IF \E i \in 1 .. n : HasFd(i) /\ Reuse(i) /\ Rank(i, Owns) = 0 THEN Fail
       ELSE IF Len(Part("rights")) < Rank(n, Owns) THEN Fail
       ELSE IF BitAnd(seg[n].flags, OBJM_SEG.FLAG_FIN) = 0 THEN Fail
       ELSE [ret |-> 0, content_len |-> LogicalFrom(1),
             segments |->
                 [i \in 1 .. n |->
                    [type |-> seg[i].type, flags |-> seg[i].flags,
                     copy_length |-> seg[i].copy_length,
                     logical_length |-> seg[i].logical_length,
                     storage_offset |-> seg[i].storage_offset,
                     storage_length |-> seg[i].storage_length,
                     inline_data |-> IF Carries(i)
                                     THEN frame.inline[Rank(i, Carries)] ELSE <<>>,
                     fd |-> IF HasFd(i)
                            THEN <<frame.rights[Rank(Owner(i), Owns)]>> ELSE <<>>,
                     owns_fd |-> IF Owns(i) THEN 1 ELSE 0]]]

\* ret and the frame put on the wire, if any.  sendmsg passes resp.fd only
\* if it is open.  A V2 response with segments has its header written before
\* the table is looked at.
objm_server_send_response(M, conn, resp) ==
    LET passes == resp.status = OBJM_STATUS.OK /\ resp.fd >= 0
        rights == IF passes /\ IsOpen(M, resp.fd) THEN <<M.fdt[resp.fd]>> ELSE <<>>
        ret == IF passes /\ rights = <<>> THEN -1 ELSE 0
        Segmented(p) ==
            [ret |-> p.ret,
             out |-> <<IF p.wrote
                       THEN [b0 |-> OBJM_MSG.SEGMENTED_RESPONSE,
                             request_id |-> hton(resp.request_id, 4),
                             status |-> resp.status,
                             segment_count |-> hton(Len(resp.segments), 2),
                             table |-> p.table, inline |-> p.inline,
                             rights |-> p.rights]
                       ELSE [b0 |-> OBJM_MSG.SEGMENTED_RESPONSE,
                             request_id |-> hton(resp.request_id, 4),
                             status |-> resp.status,
                             segment_count |-> hton(Len(resp.segments), 2)]>>]
    IN IF conn.version = 1
       THEN [ret |-> ret,
             out |-> <<[b0 |-> resp.status, content_len |-> hton(resp.content_len, 8),
                        rights |-> rights]>>]
       ELSE IF resp.segments # <<>>
       THEN IF BitAnd(conn.capabilities, OBJM_CAP_SEGMENTED_DELIVERY) = 0
            THEN [ret |-> -1, out |-> <<>>]
            ELSE Segmented(send_segmented_payload(M, resp))
       ELSE [ret |-> ret,
             out |-> <<[b0 |-> OBJM_MSG.RESPONSE,
                        request_id |-> hton(resp.request_id, 4),
                        status |-> resp.status,
                        content_len |-> hton(resp.content_len, 8),
                        rights |-> rights]>>]

\* the frame of the error response
objm_server_send_error(M, conn, request_id, status) ==
    Head(objm_server_send_response(M, conn,
                                   [request_id |-> request_id, status |-> status,
                                    fd |-> -1, content_len |-> 0,
                                    segments |-> <<>>]).out)

\* reads_fd: the call goes on to recv_fd after the header
objm_client_recv_response(conn, frame) ==
    LET Fail == [ret |-> -1, reads_fd |-> FALSE, resp |-> NoResp]
        Got(request_id, status, content_len, reads_fd) ==
            IF reads_fd /\ frame.rights = <<>>
            THEN [Fail EXCEPT !.reads_fd = TRUE]
            ELSE [ret |-> 0, reads_fd |-> reads_fd,
                  resp |-> [request_id |-> request_id, status |-> status,
                            content_len |-> content_len,
                            fd |-> IF reads_fd THEN frame.rights ELSE <<>>]]
        Header(request_id, status, content_len) ==
            Got(request_id, status, content_len,
                status = OBJM_STATUS.OK /\ content_len = 0)
        Segmented(p) ==
            IF p.ret < 0 THEN Fail
            ELSE [ret |-> 0, reads_fd |-> FALSE,
                  resp |-> [request_id |-> ntoh(frame.request_id),
                            status |-> frame.status, content_len |-> p.content_len,
                            fd |-> <<>>, segments |-> p.segments]]
    IN IF frame.b0 = -1 THEN Fail
       ELSE IF conn.version = 1 THEN Header(0, frame.b0, ntoh(frame.content_len))
       ELSE IF frame.b0 = OBJM_MSG.RESPONSE
       THEN Header(ntoh(frame.request_id), frame.status, ntoh(frame.content_len))
       ELSE IF frame.b0 = OBJM_MSG.SEGMENTED_RESPONSE
       THEN IF BitAnd(conn.capabilities, OBJM_CAP_SEGMENTED_DELIVERY) = 0 THEN Fail
            ELSE Segmented(recv_segmented_payload(frame, ntoh(frame.segment_count)))
       ELSE Fail

(***************************************************************************)
(* Request handlers (server.c)                                             *)
(***************************************************************************)
handle_get(M, conn, req) ==
    LET Looked(l) ==
            IF l.ret < 0
            THEN [M |-> l.M, ret |-> -1,
                  out |-> objm_server_send_error(l.M, conn, req.id,
                                                 OBJM_STATUS.NOT_FOUND)]
            ELSE IF req.mode = OBJM_MODE_FDPASS
            THEN [M |-> fd_ref_release(l.M, l.ref), ret |-> 0,
                  out |-> Head(objm_server_send_response(
                                   l.M, conn,
                                   [request_id |-> req.id, status |-> OBJM_STATUS.OK,
                                    fd |-> l.ref.fd, content_len |-> 0,
                                    segments |-> <<>>]).out)]
            ELSE [M |-> fd_ref_release(l.M, l.ref), ret |-> -1,
                  out |-> objm_server_send_error(l.M, conn, req.id,
                                                 OBJM_STATUS.UNSUPPORTED_OP)]
    IN Looked(backend_get_object(M, req.uri))

handle_put(M, conn, req) ==
    LET Created(c) ==
            IF c.ret < 0
            THEN [M |-> c.M, ret |-> -1,
                  out |-> objm_server_send_error(c.M, conn, req.id,
                                                 OBJM_STATUS.STORAGE_ERROR)]
            ELSE IF req.mode = OBJM_MODE_FDPASS
            THEN [M |-> fd_ref_release(c.M, c.ref), ret |-> 0,
                  out |-> Head(objm_server_send_response(
                                   c.M, conn,
                                   [request_id |-> req.id, status |-> OBJM_STATUS.OK,
                                    fd |-> c.ref.fd, content_len |-> 0,
                                    segments |-> <<>>]).out)]
            ELSE [M |-> fd_ref_release(c.M, c.ref), ret |-> -1,
                  out |-> objm_server_send_error(c.M, conn, req.id,
                                                 OBJM_STATUS.UNSUPPORTED_OP)]
        Cleared(M1) ==
            Created(backend_create_object(
                        M1, [uri |-> req.uri, backend_id |-> -1,
                             ephemeral |-> BitAnd(req.flags, OBJM_REQ_PRIORITY) # 0]))
        Looked(l) ==
            IF l.ret = 0
            THEN Cleared(backend_delete_object(fd_ref_release(l.M, l.ref), req.uri).M)
            ELSE Cleared(l.M)
    IN Looked(backend_get_object(M, req.uri))

handle_delete(M, conn, req) ==
    LET Deleted(d) ==
            IF d.ret = 0
            THEN [M |-> d.M, ret |-> 0,
                  out |-> Head(objm_server_send_response(
                                   d.M, conn,
                                   [request_id |-> req.id, status |-> OBJM_STATUS.OK,
                                    fd |-> -1, content_len |-> 1,
                                    segments |-> <<>>]).out)]
            ELSE [M |-> d.M, ret |-> -1,
                  out |-> objm_server_send_error(d.M, conn, req.id,
                                                 OBJM_STATUS.NOT_FOUND)]
    IN Deleted(backend_delete_object(M, req.uri))

handle_list(M, conn, req) ==
    [M |-> M, ret |-> -1,
     out |-> objm_server_send_error(M, conn, req.id, OBJM_STATUS.UNSUPPORTED_OP)]

\* strncmp(s, prefix, strlen(prefix)) == 0
StrPrefix(s, prefix) ==
    Len(s) >= Len(prefix) /\ SubSeq(s, 1, Len(prefix)) = prefix

\* req->uri + 7: the request URI behind "/delete"
DeleteTarget(uri) == SubSeq(uri, 8, Len(uri))

\* a dispatch that takes a request for an object that exists as a PUT and
\* one for an object that does not as a GET
client_thread_dispatch_inverted(M, conn, req) ==
    LET Ran(op, r, h) ==
            [M |-> h.M, out |-> h.out, ret |-> h.ret, op |-> op, uri |-> r.uri]
        Delete_(r) == Ran("delete", r, handle_delete(M, conn, r))
        GetOrPut(l) ==
            IF l.ret # 0
            THEN Ran("get", req, handle_get(l.M, conn, req))
            ELSE Ran("put", req, handle_put(fd_ref_release(l.M, l.ref), conn, req))
    IN IF StrPrefix(req.uri, <<47, 100, 101, 108, 101, 116, 101, 47>>)
       THEN Delete_([req EXCEPT !.uri = DeleteTarget(req.uri)])
       ELSE IF req.uri = <<47, 108, 105, 115, 116>>
               \/ StrPrefix(req.uri, <<47, 98, 97, 99, 107, 101, 110, 100, 47>>)
       THEN Ran("list", req, handle_list(M, conn, req))
       ELSE GetOrPut(backend_get_object(M, req.uri))

\* one pass of the request loop's body for a request that was read, with
\* "/delete/", "/list" and "/backend/" as byte strings: op is the handler the
\* request went to
client_thread_dispatch(M, conn, req) ==
    LET Ran(op, r, h) ==
            [M |-> h.M, out |-> h.out, ret |-> h.ret, op |-> op, uri |-> r.uri]
        Delete_(r) == Ran("delete", r, handle_delete(M, conn, r))
        GetOrPut(l) ==
            IF l.ret = 0
            THEN Ran("get", req, handle_get(fd_ref_release(l.M, l.ref), conn, req))
            ELSE Ran("put", req, handle_put(l.M, conn, req))
    IN IF StrPrefix(req.uri, <<47, 100, 101, 108, 101, 116, 101, 47>>)
       THEN Delete_([req EXCEPT !.uri = DeleteTarget(req.uri)])
       ELSE IF req.uri = <<47, 108, 105, 115, 116>>
               \/ StrPrefix(req.uri, <<47, 98, 97, 99, 107, 101, 110, 100, 47>>)
       THEN Ran("list", req, handle_list(M, conn, req))
       ELSE GetOrPut(backend_get_object(M, req.uri))

(***************************************************************************)
(* A connection: one client of the library on one side, on the other       *)
(* server.c's client_thread over the backend manager (kind "server") or a  *)
(* server that negotiated out-of-order replies (kind "example").           *)
(***************************************************************************)
\* main of either program up to listen(): server.c scans both backends
ServerStart ==
    /\ srv.st = "start"
    /\ \E kind \in {"server", "example"}, order \in Orders :
         /\ srv' = [srv EXCEPT !.st = "accept", !.kind = kind]
         /\ IF kind = "server"
            THEN \E r \in {backend_manager_scan(
                               backend_manager_scan(Mem, 0, order).M, 1, order)} :
                    Store(r.M, handles, last, life, trip)
            ELSE UNCHANGED managerVars
    /\ UNCHANGED <<threadVars, serviceVars, cli, c2s, s2c, wlog>>

\* objm_client_create, and for V2 the HELLO that objm_client_hello sends
ClientConnect ==
    /\ cli.st = "new" /\ srv.st = "accept"
    /\ \/ /\ cli' = [cli EXCEPT !.st = "ready", !.version = 1, !.max_pipeline = 1]
          /\ UNCHANGED c2s
       \/ \E hello \in ClientHellos :
            /\ cli' = [cli EXCEPT !.st = "hello", !.version = OBJM_VERSION_2,
                                  !.hello = hello, !.max_pipeline = 1]
            /\ c2s' = Append(c2s,
                             [b0 |-> OBJM_MAGIC[1], magic |-> OBJM_MAGIC,
                              version |-> OBJM_VERSION_2,
                              capabilities |-> hton(hello.capabilities, 2),
                              max_pipeline |-> hton(hello.max_pipeline, 2)])
    /\ UNCHANGED <<managerVars, threadVars, serviceVars, srv, s2c, wlog>>

ServerHandshake ==
    /\ srv.st = "accept" /\ c2s # <<>>
    /\ \E r \in {objm_server_handshake(ServerHello(srv.kind), Head(c2s))} :
         /\ srv' = IF r.ret < 0
                   THEN [srv EXCEPT !.st = "done", !.why = "handshake"]
                   ELSE [srv EXCEPT !.st = "loop",
                                    !.version = r.params.version,
                                    !.capabilities = r.params.capabilities,
                                    !.max_pipeline = r.params.max_pipeline,
                                    !.backend_parallelism =
                                        r.params.backend_parallelism]
         /\ c2s' = IF r.consumed THEN Tail(c2s) ELSE c2s
         /\ s2c' = s2c \o r.ack
    /\ UNCHANGED <<managerVars, threadVars, serviceVars, cli, wlog>>

\* objm_client_hello from the HELLO_ACK on
ClientHelloAck ==
    /\ cli.st = "hello" /\ s2c # <<>>
    /\ \E ack \in {Head(s2c)} :
         cli' = IF ack.b0 # OBJM_MAGIC[1]
                THEN [cli EXCEPT !.st = "failed"]
                ELSE IF ack.magic # OBJM_MAGIC \/ ack.version # OBJM_VERSION_2
                THEN [cli EXCEPT !.st = "failed"]
                ELSE [cli EXCEPT
                        !.st = "ready",
                        !.capabilities = ntoh(ack.capabilities),
                        !.max_pipeline = ntoh(ack.max_pipeline),
                        !.pending_capacity =
                            IF BitAnd(ntoh(ack.capabilities), OBJM_CAP_OOO_REPLIES) # 0
                            THEN ntoh(ack.max_pipeline) ELSE 0]
    /\ s2c' = Tail(s2c)
    /\ UNCHANGED <<managerVars, threadVars, serviceVars, srv, c2s, wlog>>

\* the requests callers make: the objects, "/delete" before an object,
\* "/list" and "/backend/0" in FD-pass mode, objects also in copy mode and
\* with the priority flag, and one whose URI is too long
Requests ==
    {[uri |-> u, uri_len |-> Len(u), mode |-> OBJM_MODE_FDPASS, flags |-> 0] :
        u \in URIs \cup {<<47, 100, 101, 108, 101, 116, 101>> \o o : o \in URIs}
                  \cup {<<47, 108, 105, 115, 116>>,
                        <<47, 98, 97, 99, 107, 101, 110, 100, 47, 48>>}}
    \cup {[uri |-> u, uri_len |-> Len(u), mode |-> OBJM_MODE_COPY, flags |-> 0] :
             u \in URIs}
    \cup {[uri |-> URI_E, uri_len |-> 2, mode |-> OBJM_MODE_FDPASS,
           flags |-> OBJM_REQ_PRIORITY],
          [uri |-> <<>>, uri_len |-> OBJM_MAX_URI_LEN + 1, mode |-> OBJM_MODE_FDPASS,
           flags |-> 0]}

\* objm_client_send_request by a caller that keeps to the negotiated
\* pipeline depth; the bytes of an over-long URI are left out.  The example
\* server's replies do not depend on the request, so one request stands for
\* all.
ClientSendRequest ==
    /\ cli.st = "ready" /\ cli.sent < MaxReqs
    /\ Cardinality(cli.out) < cli.max_pipeline
    /\ \E req \in IF srv.kind = "server" THEN Requests
                   ELSE {r \in Requests : r.uri = URI_A /\ r.mode = OBJM_MODE_COPY},
          id \in IF cli.version = 1 THEN {0}
                 ELSE RequestIds \ (cli.out \cup cli.done \cup cli.rd) :
         /\ c2s' = Append(c2s,
                          IF cli.version = 1
                          THEN [b0 |-> req.mode, uri_len |-> hton(req.uri_len, 2),
                                uri |-> req.uri]
                          ELSE [b0 |-> OBJM_MSG.REQUEST, request_id |-> hton(id, 4),
                                flags |-> req.flags, mode |-> req.mode,
                                uri_len |-> hton(req.uri_len, 2), uri |-> req.uri])
         /\ cli' = [cli EXCEPT !.out = @ \cup {id}, !.sent = @ + 1]
    /\ UNCHANGED <<managerVars, threadVars, serviceVars, srv, s2c, wlog>>

\* a peer that writes a frame of a type the protocol does not have
RawSend ==
    /\ cli.st = "ready" /\ cli.version = OBJM_VERSION_2
    /\ cli.sent < MaxReqs /\ cli.out = {}
    /\ c2s' = Append(c2s, [b0 |-> 9])
    /\ cli' = [cli EXCEPT !.sent = @ + 1]
    /\ UNCHANGED <<managerVars, threadVars, serviceVars, srv, s2c, wlog>>

\* objm_client_recv_response called by the caller itself
ClientRecvResponse ==
    /\ cli.st = "ready" /\ cli.pending_capacity = 0
    /\ cli.out # {} /\ s2c # <<>>
    /\ \E r \in {objm_client_recv_response(cli, Head(s2c))} :
         cli' = IF r.ret < 0 THEN [cli EXCEPT !.st = "failed"]
                ELSE [cli EXCEPT !.out = @ \ {r.resp.request_id},
                                 !.rd = @ \cup {r.resp.request_id},
                                 !.done = @ \cup {r.resp.request_id}]
    /\ s2c' = Tail(s2c)
    /\ UNCHANGED <<managerVars, threadVars, serviceVars, srv, c2s, wlog>>

\* objm_client_recv_response_for up to its loop: a parked reply is returned
\* at once
RecvFor ==
    /\ cli.st = "ready" /\ cli.version = OBJM_VERSION_2 /\ cli.pending_capacity > 0
    /\ \E request_id \in cli.out :
         cli' = IF request_id < cli.pending_capacity
                   /\ cli.pending_responses[request_id] # NoResp
                THEN [cli EXCEPT !.pending_responses[request_id] = NoResp,
                                 !.out = @ \ {request_id},
                                 !.done = @ \cup {request_id},
                                 !.reads = 0]
                ELSE [cli EXCEPT !.st = "wait", !.want = request_id, !.reads = 0]
    /\ UNCHANGED <<managerVars, threadVars, serviceVars, srv, c2s, s2c, wlog>>

\* one pass of the loop of objm_client_recv_response_for
RecvStep ==
    /\ cli.st = "wait" /\ s2c # <<>>
    /\ \E r \in {objm_client_recv_response(cli, Head(s2c))} :
         cli' = IF r.ret < 0 THEN [cli EXCEPT !.st = "failed"]
                ELSE IF r.resp.request_id = cli.want
                THEN [cli EXCEPT !.st = "ready", !.want = -1,
                                 !.reads = @ + 1,
                                 !.out = @ \ {r.resp.request_id},
                                 !.rd = @ \cup {r.resp.request_id},
                                 !.done = @ \cup {r.resp.request_id}]
                ELSE IF r.resp.request_id < cli.pending_capacity
                THEN [cli EXCEPT !.pending_responses[r.resp.request_id] = r.resp,
                                 !.reads = @ + 1,
                                 !.rd = @ \cup {r.resp.request_id}]
                ELSE [cli EXCEPT !.reads = @ + 1,
                                 !.rd = @ \cup {r.resp.request_id}]
    /\ s2c' = Tail(s2c)
    /\ UNCHANGED <<managerVars, threadVars, serviceVars, srv, c2s, wlog>>

\* objm_client_close up to its wait for the CLOSE_ACK; a V1 caller then
\* closes the socket
ClientClose ==
    /\ cli.st = "ready" /\ cli.out = {}
    /\ IF cli.version = OBJM_VERSION_2
       THEN /\ c2s' = Append(c2s, [b0 |-> OBJM_MSG.CLOSE, reason |-> 0])
            /\ cli' = [cli EXCEPT !.st = "closing"]
       ELSE /\ c2s' = Append(c2s, [b0 |-> -1])
            /\ cli' = [cli EXCEPT !.st = "closed"]
    /\ UNCHANGED <<managerVars, threadVars, serviceVars, srv, s2c, wlog>>

ClientCloseAck ==
    /\ cli.st = "closing" /\ s2c # <<>>
    /\ cli' = [cli EXCEPT !.st = IF Head(s2c).b0 = OBJM_MSG.CLOSE_ACK
                                 THEN "closed" ELSE "failed"]
    /\ s2c' = Tail(s2c)
    /\ UNCHANGED <<managerVars, threadVars, serviceVars, srv, c2s, wlog>>

\* one pass of the while loop of client_thread, and what follows the loop
\* once it is left.  A handler whose behaviour is undefined either goes on
\* with the memory it left or takes the process down before it responds.
ServerRequest ==
    /\ srv.st = "loop" /\ srv.kind = "server" /\ c2s # <<>>
    /\ c2s' = Tail(c2s)
    /\ \E r \in {objm_server_recv_request(srv.version, Head(c2s))} :
         IF r.ret # 0
         THEN /\ srv' = [srv EXCEPT !.st = "done",
                                    !.why = IF r.ret = 1 THEN "close"
                                            ELSE IF Head(c2s).b0 = -1 THEN "eof"
                                            ELSE "rejected"]
              /\ s2c' = Append(s2c, [b0 |-> -1])
              /\ wlog' = <<[ev |-> srv'.why, frame |-> Head(c2s)]>>
              /\ UNCHANGED managerVars
         ELSE \E d \in {client_thread_dispatch(Mem, srv, r.req)} :
                \E crash \in IF d.M.st = "ub" THEN BOOLEAN ELSE {FALSE} :
                  IF crash
                  THEN /\ srv' = [srv EXCEPT !.st = "dead", !.why = "crash"]
                       /\ s2c' = Append(s2c, [b0 |-> -1])
                       /\ wlog' = <<[ev |-> "request", req |-> r.req,
                                      op |-> d.op, uri |-> d.uri,
                                      exists |-> r.req.uri \in URIs
                                                    /\ Lookup(r.req.uri) # NULL]>>
                       /\ Store(d.M, handles, last, life, trip)
                  ELSE /\ srv' = srv
                       /\ s2c' = Append(s2c, d.out)
                       /\ wlog' = <<[ev |-> "request", req |-> r.req,
                                      op |-> d.op, uri |-> d.uri,
                                      exists |-> r.req.uri \in URIs
                                                    /\ Lookup(r.req.uri) # NULL],
                                     [ev |-> "response", frame |-> d.out,
                                      ret |-> d.ret]>>
                       /\ Store([d.M EXCEPT !.st = "run"], handles, last, life, trip)
    /\ UNCHANGED <<threadVars, serviceVars, cli>>

\* the example server reads a request; it acknowledges a CLOSE
PeerRecv ==
    /\ srv.st = "loop" /\ srv.kind = "example" /\ c2s # <<>>
    /\ c2s' = Tail(c2s)
    /\ \E r \in {objm_server_recv_request(srv.version, Head(c2s))} :
         IF r.ret = 0
         THEN /\ srv' = [srv EXCEPT !.todo = @ \cup {r.req.id}]
              /\ UNCHANGED s2c
         ELSE /\ srv' = [srv EXCEPT !.st = "done",
                                    !.why = IF r.ret = 1 THEN "close" ELSE "rejected"]
              /\ s2c' = IF r.ret = 1
                        THEN s2c \o <<[b0 |-> OBJM_MSG.CLOSE_ACK,
                                       outstanding |-> hton(0, 4)], [b0 |-> -1]>>
                        ELSE Append(s2c, [b0 |-> -1])
    /\ UNCHANGED <<managerVars, threadVars, serviceVars, cli, wlog>>

\* a reply to one of the requests read, in whatever order replies get ready
PeerReply ==
    /\ srv.st = "loop" /\ srv.kind = "example"
    /\ \E request_id \in srv.todo :
         /\ srv' = [srv EXCEPT !.todo = @ \ {request_id}]
         /\ s2c' = Append(s2c,
                          Head(objm_server_send_response(
                                   Mem, srv,
                                   [request_id |-> request_id,
                                    status |-> OBJM_STATUS.OK, fd |-> -1,
                                    content_len |-> 1, segments |-> <<>>]).out))
    /\ UNCHANGED <<managerVars, threadVars, serviceVars, cli, c2s, wlog>>

WireNext ==
    \/ ServerStart
    \/ ClientConnect
    \/ ServerHandshake
    \/ ClientHelloAck
    \/ ClientSendRequest
    \/ RawSend
    \/ ClientRecvResponse
    \/ RecvFor
    \/ RecvStep
    \/ ClientClose
    \/ ClientCloseAck
    \/ ServerRequest
    \/ PeerRecv
    \/ PeerReply

WireSpec == Init /\ [][WireNext]_vars

(***************************************************************************)
(* Responses with a segment table, between a server program that answers   *)
(* with objm_server_send_response and a client of the library             *)
(***************************************************************************)
\* the segments a server program may put in a table: inline ones with and
\* without their bytes, FD and SPLICE ones with and without a descriptor,
\* and one of a type the protocol does not have
SegmentShapes ==
    {[type |-> OBJM_SEG.TYPE_INLINE, flags |-> fl, copy_length |-> l[1],
      logical_length |-> l[2], storage_offset |-> 0, storage_length |-> l[2],
      inline_data |-> d, fd |-> -1] :
        fl \in {0, 1, 3}, l \in {<<0, 0>>, <<1, 1>>, <<0, 1>>}, d \in {<<>>, <<7>>}}
    \cup {[type |-> OBJM_SEG.TYPE_FD, flags |-> fl, copy_length |-> l[1],
           logical_length |-> l[2], storage_offset |-> 0, storage_length |-> l[3],
           inline_data |-> <<>>, fd |-> fd] :
             fl \in 0 .. 3, l \in {<<0, 1, 1>>, <<0, 1, 0>>, <<1, 1, 1>>},
             fd \in {-1, 1}}
    \cup {[type |-> t, flags |-> fl, copy_length |-> 0, logical_length |-> 1,
           storage_offset |-> 0, storage_length |-> 1, inline_data |-> <<>>,
           fd |-> 1] : t \in {OBJM_SEG.TYPE_SPLICE, 3}, fl \in {1, 3}}

\* the example server opens the file a request names
PeerOpen ==
    /\ srv.st = "loop" /\ srv.kind = "example" /\ srv.todo # {} /\ wlog = <<>>
    /\ \A f \in Fds : ~IsOpen(Mem, f)
    /\ \E r \in {sys_open(Mem, <<1, URI_A>>, FALSE, FALSE, "r")} :
         r.fd >= 0 /\ Commit(r.M, handles, last, life, trip)

\* a server program answers a request it has read with a response that
\* holds a segment table; content_len is the sum of the logical lengths
SegSend ==
    /\ srv.st = "loop" /\ srv.kind = "example" /\ wlog = <<>>
    /\ c2s = <<>> /\ s2c = <<>>
    /\ \E request_id \in srv.todo,
          segments \in UNION {[1 .. k -> SegmentShapes] : k \in 1 .. MaxSegs} :
         LET RECURSIVE Logical(_)
             Logical(i) == IF i > Len(segments) THEN 0
                           ELSE segments[i].logical_length + Logical(i + 1)
             resp == [request_id |-> request_id, status |-> OBJM_STATUS.OK,
                      fd |-> -1, content_len |-> Logical(1), segments |-> segments]
         IN \E r \in {objm_server_send_response(Mem, srv, resp)} :
              /\ s2c' = s2c \o r.out
              /\ wlog' = <<[ev |-> "send", resp |-> resp, ret |-> r.ret,
                            out |-> r.out]>>
              /\ srv' = [srv EXCEPT !.todo = @ \ {request_id}]
    /\ UNCHANGED <<managerVars, threadVars, serviceVars, cli, c2s>>

\* a peer that is not built on the library answers a V2 request with a
\* segmented frame, whatever was negotiated and whatever the table holds
SegForge ==
    /\ srv.st = "loop" /\ srv.kind = "example" /\ wlog = <<>>
    /\ srv.version = OBJM_VERSION_2 /\ c2s = <<>> /\ s2c = <<>>
    /\ \E request_id \in srv.todo,
          segments \in UNION {[1 .. k -> SegmentShapes] : k \in 1 .. MaxSegs} :
         LET Carries(s) == s.type = OBJM_SEG.TYPE_INLINE /\ s.inline_data # <<>>
             Passes(s) == /\ s.type \in {OBJM_SEG.TYPE_FD, OBJM_SEG.TYPE_SPLICE}
                          /\ BitAnd(s.flags, OBJM_SEG.FLAG_REUSE_FD) = 0
                          /\ IsOpen(Mem, s.fd)
             carried == SelectSeq(segments, Carries)
             passed == SelectSeq(segments, Passes)
             frame == [b0 |-> OBJM_MSG.SEGMENTED_RESPONSE,
                       request_id |-> hton(request_id, 4),
                       status |-> OBJM_STATUS.OK,
                       segment_count |-> hton(Len(segments), 2),
                       table |-> [i \in 1 .. Len(segments) |->
                                    segment_entry(segments[i])],
                       inline |-> [k \in 1 .. Len(carried) |->
                                     carried[k].inline_data],
                       rights |-> [k \in 1 .. Len(passed) |-> fdt[passed[k].fd]]]
         IN /\ s2c' = Append(s2c, frame)
            /\ wlog' = <<[ev |-> "forge",
                          resp |-> [request_id |-> request_id,
                                    status |-> OBJM_STATUS.OK, fd |-> -1,
                                    content_len |-> 0, segments |-> segments],
                          ret |-> 0, out |-> <<frame>>]>>
            /\ srv' = [srv EXCEPT !.todo = @ \ {request_id}]
    /\ UNCHANGED <<managerVars, threadVars, serviceVars, cli, c2s>>

\* one request of one client, answered with a segment table
SegNext ==
    \/ ServerStart
    \/ ClientConnect
    \/ ServerHandshake
    \/ ClientHelloAck
    \/ (cli.sent = 0 /\ ClientSendRequest)
    \/ PeerRecv
    \/ PeerOpen
    \/ SegSend
    \/ SegForge
    \/ ClientRecvResponse
    \/ RecvFor
    \/ RecvStep

SegSpec == Init /\ [][SegNext]_vars

(***************************************************************************)
(* What the indexes hold                                                   *)
(***************************************************************************)
\* the entries a walk from head meets
RECURSIVE ChainSet(_, _)
ChainSet(e, fuel) ==
    IF e = NULL \/ fuel = 0 THEN {}
    ELSE IF ~ent[e].alloc THEN {}
    ELSE {e} \cup ChainSet(ent[e].next, fuel - 1)

\* the entries linked in the global index / in the index of backend i
GlobalLinked == UNION {ChainSet(gb[b], MaxEntries) : b \in GBuckets}
BackendLinked(i) == UNION {ChainSet(bb[i][b], MaxEntries) : b \in BBuckets}

\* the number of indexes entry e is linked in
Memberships(e) ==
    (IF e \in GlobalLinked THEN 1 ELSE 0)
      + Cardinality({i \in BackendIds : e \in BackendLinked(i)})

\* the handles held on entry e
HandlesOn(e) == {h \in HeldHandles : handles[h].entry = e /\ ~handles[h].dead}

(***************************************************************************)
(* Calls made by several threads of one program: backend_update_size and   *)
(* backend_delete_object step by step, over the memory the calls above     *)
(* work on                                                                 *)
(***************************************************************************)
\* the manager after one step of a thread
Step(M, t, w) ==
    /\ Store(M, handles, last, life, trip)
    /\ work' = [work EXCEPT ![t] = w]
    /\ UNCHANGED <<threadVars, wireVars, cache, snap>>

\* backend_update_size: the lookup and the backend of the entry found; the
\* read of entry->size_bytes; the write of it; the two counters and the
\* first payload descriptor; the release
UpdateSizeSteps(t) ==
    /\ st = "run"
    /\ \/ /\ work[t].pc = "idle" /\ ~work[t].done /\ FreeFds(Mem) # {}
          /\ \E uri \in URIs, new_size \in 0 .. MaxLen :
               \E l \in {global_index_lookup(Mem, uri)} :
                  /\ l.ret = 0 => Mem.ent[l.ref.entry].fd_refcount < MaxRef
                  /\ Step(l.M, t,
                          IF l.ret < 0 THEN [IdleWork EXCEPT !.done = TRUE]
                          ELSE [IdleWork EXCEPT
                                  !.pc = "size_read", !.uri = uri, !.ref = l.ref,
                                  !.new_size = new_size,
                                  !.backend = backend_manager_get_backend(
                                                  l.M, l.M.ent[l.ref.entry].backend_id)])
       \/ /\ work[t].pc = "size_read"
          /\ Step(Touch(Mem, work[t].ref.entry), t,
                  [work[t] EXCEPT !.pc = "size_write",
                                  !.old_size = ent[work[t].ref.entry].size_bytes])
       \/ /\ work[t].pc = "size_write"
          /\ Step([Touch(Mem, work[t].ref.entry)
                      EXCEPT !.ent[work[t].ref.entry].size_bytes = work[t].new_size],
                  t, [work[t] EXCEPT !.pc = "size_count"])
       \/ /\ work[t].pc = "size_count"
          /\ \E M1 \in {[Touch(Mem, work[t].ref.entry) EXCEPT
                             !.used_bytes[work[t].backend] =
                                 @ + (work[t].new_size - work[t].old_size),
                             !.total_bytes =
                                 @ + (work[t].new_size - work[t].old_size)]} :
               Step(IF work[t].new_size > 0
                       /\ M1.ent[work[t].ref.entry].payload.variant_count = 0
                    THEN backend_mark_index_dirty(
                             index_entry_seed_identity_payload(
                                 M1, work[t].ref.entry, work[t].new_size),
                             work[t].backend)
                    ELSE IF work[t].new_size # work[t].old_size
                    THEN backend_mark_index_dirty(M1, work[t].backend)
                    ELSE M1,
                    t, [work[t] EXCEPT !.pc = "size_release"])
       \/ /\ work[t].pc = "size_release"
          /\ Step(fd_ref_release(Mem, work[t].ref), t,
                  [IdleWork EXCEPT !.done = TRUE])

\* backend_delete_object: the lookup; everything it does under the
\* backend's write lock, which no two threads hold at once; the release
DeleteSteps(t) ==
    /\ st = "run"
    /\ \/ /\ work[t].pc = "idle" /\ ~work[t].done /\ FreeFds(Mem) # {}
          /\ \E uri \in URIs :
               \E l \in {global_index_lookup(Mem, uri)} :
                  /\ l.ret = 0 => Mem.ent[l.ref.entry].fd_refcount < MaxRef
                  /\ Step(l.M, t,
                          IF l.ret < 0 THEN [IdleWork EXCEPT !.done = TRUE]
                          ELSE [IdleWork EXCEPT
                                  !.pc = "delete_locked", !.uri = uri, !.ref = l.ref,
                                  !.backend = backend_manager_get_backend(
                                                  l.M, l.M.ent[l.ref.entry].backend_id)])
       \/ /\ work[t].pc = "delete_locked"
          /\ \E M1 \in {sys_unlink(Touch(Mem, work[t].ref.entry),
                                   ent[work[t].ref.entry].path)} :
               Step(global_index_remove(
                        backend_index_remove(
                            [M1 EXCEPT
                               !.object_count[work[t].backend] = @ - 1,
                               !.used_bytes[work[t].backend] =
                                   @ - ent[work[t].ref.entry].size_bytes,
                               !.total_objects = @ - 1,
                               !.total_bytes = @ - ent[work[t].ref.entry].size_bytes],
                            work[t].backend, work[t].uri).M,
                        work[t].uri).M,
                    t, [work[t] EXCEPT !.pc = "delete_release"])
       \/ /\ work[t].pc = "delete_release"
          /\ Step(fd_ref_release(Mem, work[t].ref), t,
                  [IdleWork EXCEPT !.done = TRUE])

\* one program: objects are made, and each thread makes one call
AccountNext ==
    \/ Create
    \/ \E t \in Threads : UpdateSizeSteps(t)
    \/ \E t \in Threads : DeleteSteps(t)

AccountSpec == Init /\ [][AccountNext]_vars

(***************************************************************************)
(* A lookup that takes no lock, step by step, while other callers delete   *)
(* objects and release handles (index.c)                                   *)
(***************************************************************************)
\* global_index_lookup: the load of the bucket head; the test of the entry
\* loaded, which reads entry->uri_hash and entry->uri and on a mismatch loads
\* entry->next; index_entry_get of the entry found; the open of its path and
\* the count in fd_refcount.  The caller then releases the handle.  A step
\* that reads or writes an entry already freed leaves the thread at
\* "lookup_freed".
LookupSteps(t) ==
    /\ st = "run"
    /\ LET cur == work[t].ref.entry
           Freed == Step(Touch(Mem, cur), t, [work[t] EXCEPT !.pc = "lookup_freed"])
       IN
       \/ /\ work[t].pc = "idle" /\ ~work[t].done
          /\ \E uri \in URIs :
               Step(Mem, t,
                    [IdleWork EXCEPT !.pc = "lookup_test", !.uri = uri,
                                     !.ref = [NullRef EXCEPT
                                                !.entry = gb[GBucket(uri)]]])
       \/ /\ work[t].pc = "lookup_test"
          /\ IF cur = NULL THEN Step(Mem, t, [IdleWork EXCEPT !.done = TRUE])
             ELSE IF ~ent[cur].alloc THEN Freed
             ELSE IF ent[cur].uri = work[t].uri
                  THEN Step(Mem, t, [work[t] EXCEPT !.pc = "lookup_get"])
             ELSE Step(Mem, t, [work[t] EXCEPT !.ref.entry = ent[cur].next])
       \/ /\ work[t].pc = "lookup_get"
          /\ IF ~ent[cur].alloc THEN Freed
             ELSE Step(index_entry_get(Mem, cur), t,
                       [work[t] EXCEPT !.pc = "lookup_open"])
       \/ /\ work[t].pc = "lookup_open"
          /\ FreeFds(Mem) # {} /\ ent[cur].fd_refcount < MaxRef
          /\ \E rw \in {sys_open(Mem, ent[cur].path, FALSE, FALSE, "rw")} :
               \E o \in {IF rw.fd < 0
                          THEN sys_open(Mem, ent[cur].path, FALSE, FALSE, "r")
                          ELSE rw} :
                  Step(IF o.fd >= 0
                       THEN [o.M EXCEPT !.ent[cur].fd_refcount = @ + 1]
                       ELSE o.M,
                       t, [work[t] EXCEPT !.pc = "lookup_held", !.ref.fd = o.fd])
       \/ /\ work[t].pc = "lookup_held"
          /\ Step(fd_ref_release(Mem, work[t].ref), t,
                  [IdleWork EXCEPT !.done = TRUE])

\* one program: a thread makes objects, deletes them and releases its
\* handles, while each other thread makes one lookup
LookupNext ==
    \/ Create
    \/ Delete
    \/ Release
    \/ \E t \in Threads : LookupSteps(t)

LookupSpec == Init /\ [][LookupNext]_vars

(***************************************************************************)
(* The cached descriptor of an entry: fd_ref_acquire by one thread while   *)
(* another calls index_entry_close_fd, step by step (index.c)              *)
(***************************************************************************)
\* index_entry_open_fd called on an entry of the index
OpenFd ==
    /\ Running
    /\ FreeFds(Mem) # {}
    /\ \E e \in GlobalLinked :
         Commit(index_entry_open_fd(Mem, e).M, handles, NoLast, life, NoTrip)

\* a lookup, then fd_ref_acquire on the handle it returned: the load of
\* entry->fd; the count in fd_refcount; the second load of entry->fd, which
\* ends the call or finds -1; the decrement that takes the count back;
\* index_entry_open_fd; the count; the load of entry->fd that is returned.
\* The caller then releases the handle.
AcquireSteps(t) ==
    /\ st = "run"
    /\ LET e == work[t].ref.entry
       IN
       \/ /\ work[t].pc = "idle" /\ ~work[t].done /\ FreeFds(Mem) # {}
          /\ \E uri \in URIs :
               \E l \in {global_index_lookup(Mem, uri)} :
                  /\ l.ret = 0 => Mem.ent[l.ref.entry].fd_refcount < MaxRef - 1
                  /\ Step(l.M, t,
                          IF l.ret < 0 THEN [IdleWork EXCEPT !.done = TRUE]
                          ELSE [IdleWork EXCEPT !.pc = "acquire_load", !.uri = uri,
                                                !.ref = l.ref])
       \/ /\ work[t].pc = "acquire_load"
          /\ Step(Touch(Mem, e), t,
                  [work[t] EXCEPT !.pc = IF ent[e].fd >= 0 THEN "acquire_count"
                                         ELSE "acquire_open"])
       \/ /\ work[t].pc = "acquire_count"
          /\ Step([Mem EXCEPT !.ent[e].fd_refcount = @ + 1], t,
                  [work[t] EXCEPT !.pc = "acquire_verify"])
       \/ /\ work[t].pc = "acquire_verify"
          /\ Step(Mem, t,
                  IF ent[e].fd >= 0
                  THEN [work[t] EXCEPT !.pc = "acquire_held", !.ref.fd = ent[e].fd,
                                       !.ref.generation = ent[e].fd_generation]
                  ELSE [work[t] EXCEPT !.pc = "acquire_uncount"])
       \/ /\ work[t].pc = "acquire_uncount"
          /\ Step([Mem EXCEPT !.ent[e].fd_refcount = @ - 1], t,
                  [work[t] EXCEPT !.pc = "acquire_open"])
       \/ /\ work[t].pc = "acquire_open"
          /\ FreeFds(Mem) # {}
          /\ \E o \in {index_entry_open_fd(Mem, e)} :
               Step(o.M, t,
                    [work[t] EXCEPT !.pc = IF o.ret < 0 THEN "acquire_failed"
                                           ELSE "acquire_recount"])
       \/ /\ work[t].pc = "acquire_recount"
          /\ Step([Mem EXCEPT !.ent[e].fd_refcount = @ + 1], t,
                  [work[t] EXCEPT !.pc = "acquire_return"])
       \/ /\ work[t].pc = "acquire_return"
          /\ Step(Mem, t,
                  [work[t] EXCEPT !.pc = IF ent[e].fd >= 0 THEN "acquire_held"
                                         ELSE "acquire_failed",
                                  !.ref.fd = ent[e].fd,
                                  !.ref.generation = ent[e].fd_generation])
       \/ /\ work[t].pc \in {"acquire_held", "acquire_failed"}
          /\ Step(fd_ref_release(Mem, work[t].ref), t,
                  [IdleWork EXCEPT !.done = TRUE])

\* index_entry_close_fd on an entry of the index: the load of fd_refcount;
\* the exchange of entry->fd with -1; close() of the descriptor taken and
\* the increment of fd_generation
CloseFdSteps(t) ==
    /\ st = "run"
    /\ LET e == work[t].ref.entry
       IN
       \/ /\ work[t].pc = "idle" /\ ~work[t].done
          /\ \E e0 \in GlobalLinked :
               Step(Mem, t, [IdleWork EXCEPT !.pc = "close_check", !.ref.entry = e0])
       \/ /\ work[t].pc = "close_check"
          /\ Step(Touch(Mem, e), t,
                  IF ent[e].fd_refcount > 0 THEN [IdleWork EXCEPT !.done = TRUE]
                  ELSE [work[t] EXCEPT !.pc = "close_exchange"])
       \/ /\ work[t].pc = "close_exchange"
          /\ Step([Mem EXCEPT !.ent[e].fd = -1], t,
                  IF ent[e].fd >= 0
                  THEN [work[t] EXCEPT !.pc = "close_close", !.ref.fd = ent[e].fd]
                  ELSE [IdleWork EXCEPT !.done = TRUE])
       \/ /\ work[t].pc = "close_close"
          /\ Step([sys_close(Mem, work[t].ref.fd) EXCEPT !.ent[e].fd_generation = @ + 1],
                  t, [IdleWork EXCEPT !.done = TRUE])

\* one program: the start-up scan finds the objects, descriptors are
\* cached, and each thread makes one call
FdNext ==
    \/ Scan
    \/ OpenFd
    \/ \E t \in Threads : AcquireSteps(t)
    \/ \E t \in Threads : CloseFdSteps(t)

FdSpec == Init /\ [][FdNext]_vars

(***************************************************************************)
(* The cache promoter (backend.c), its thread step by step, next to the    *)
(* calls of the program that started it                                    *)
(***************************************************************************)
\* the cache backend's used_bytes in hundredths, to set against a watermark
\* times its capacity
Utilization(used) == used * 100
AboveHigh ==
    \E used \in {used_bytes[cache.cache_backend_id]} :
       Utilization(used) > high_watermark * CacheCapacity
BelowLow ==
    \E used \in {used_bytes[cache.cache_backend_id]} :
       Utilization(used) < low_watermark * CacheCapacity

\* the score in thousandths of an entry, read at the time of its last
\* access: no time has passed, and one access adds a thousandth of 0.3
index_calculate_hotness(e) ==
    IF e \notin cache.accessed THEN 0
    ELSE LET time_factor == 1000
             access_factor == 1
             hotness == (700 * time_factor + 300 * access_factor) \div 1000
         IN IF hotness > 1000 THEN 1000 ELSE hotness

\* a lookup on behalf of a caller: backend_get_object keeps the reference,
\* backend_update_size releases it; either way the entry found is accessed
LookupCall ==
    /\ Running
    /\ FreeHandles # {} /\ FreeFds(Mem) # {}
    /\ \E uri \in URIs :
         /\ \/ \E r \in {backend_get_object(Mem, uri)}, h \in {Min(FreeHandles)} :
                 Store(r.M,
                       IF r.ret = 0 THEN [handles EXCEPT ![h] = NewHandle(r.ref)]
                                    ELSE handles,
                       NoLast, life, NoTrip)
            \/ \E new_size \in 0 .. MaxLen :
                 Store(backend_update_size(Mem, uri, new_size).M,
                       handles, NoLast, life, NoTrip)
         /\ cache' = [cache EXCEPT
                        !.accessed = IF Lookup(uri) = NULL THEN @
                                     ELSE @ \cup {Lookup(uri)}]
    /\ UNCHANGED <<threadVars, wireVars, work, snap>>

\* pthread_create makes the thread or fails
backend_start_caching ==
    /\ st = "run" /\ cache.stop # "joining"
    /\ \/ /\ cache.cache_running = 1
          /\ UNCHANGED cache
       \/ /\ cache.cache_running = 0
          /\ \E created \in BOOLEAN :
               cache' = IF created
                        THEN [cache EXCEPT !.cache_running = 1, !.thread = "poll",
                                           !.stop = "idle", !.polls = 0,
                                           !.seen = "none"]
                        ELSE [cache EXCEPT !.cache_running = 0, !.stop = "idle"]
    /\ UNCHANGED <<managerVars, threadVars, wireVars, work, snap>>

\* the promoter's loop without the test of the flag
cache_thread_func_no_poll ==
    /\ \/ /\ cache.thread = "poll"
          /\ cache' = [cache EXCEPT
                         !.thread = "pass",
                         !.polls = IF cache.stop = "joining" THEN 1 ELSE @]
       \/ /\ cache.thread = "pass"
          /\ cache' = [cache EXCEPT
                         !.thread = "poll",
                         !.seen = IF AboveHigh THEN "high"
                                  ELSE IF BelowLow THEN "low" ELSE "between"]
    /\ UNCHANGED <<managerVars, threadVars, wireVars, work, snap>>

\* one step of the promoter's thread: the poll of the flag at the head of
\* the loop, or one pass and its sleep. A pass computes the utilization and
\* enters the branch for it; neither branch changes anything
cache_thread_func ==
    /\ \/ /\ cache.thread = "poll"
          /\ cache' = [cache EXCEPT
                         !.thread = IF cache.cache_running = 1 THEN "pass"
                                    ELSE "exited",
                         !.polls = IF cache.stop = "joining" THEN @ + 1 ELSE @]
       \/ /\ cache.thread = "pass"
          /\ cache' = [cache EXCEPT
                         !.thread = "poll",
                         !.seen = IF AboveHigh THEN "high"
                                  ELSE IF BelowLow THEN "low" ELSE "between"]
    /\ UNCHANGED <<managerVars, threadVars, wireVars, work, snap>>

\* backend_stop_caching up to its wait for the thread
backend_stop_caching ==
    /\ st = "run" /\ cache.stop # "joining"
    /\ \/ /\ cache.cache_running = 1
          /\ cache' = [cache EXCEPT !.cache_running = 0, !.stop = "joining",
                                    !.polls = 0]
       \/ /\ cache.cache_running = 0
          /\ UNCHANGED cache
    /\ UNCHANGED <<managerVars, threadVars, wireVars, work, snap>>

\* pthread_join returns once the thread has returned, and with it the stop
pthread_join ==
    /\ cache.stop = "joining" /\ cache.thread = "exited"
    /\ cache' = [cache EXCEPT !.thread = "none", !.stop = "returned"]
    /\ UNCHANGED <<managerVars, threadVars, wireVars, work, snap>>

PromoterNext ==
    \/ Create
    \/ LookupCall
    \/ backend_start_caching
    \/ cache_thread_func
    \/ backend_stop_caching
    \/ pthread_join

\* the promoter's thread is scheduled, and a join of a finished thread returns
PromoterSpec ==
    /\ Init /\ [][PromoterNext]_vars
    /\ WF_vars(cache_thread_func) /\ WF_vars(pthread_join)

(***************************************************************************)
(* The per-backend snapshot file (index.c) and the registration that reads *)
(* it (backend.c)                                                          *)
(***************************************************************************)
\* htole16/32/64 of n as width bytes, and le16/32/64toh of them
RECURSIVE htole(_, _)
htole(n, width) ==
    IF width = 0 THEN <<>> ELSE <<n % 256>> \o htole(n \div 256, width - 1)

RECURSIVE letoh(_)
letoh(bytes) ==
    IF bytes = <<>> THEN 0 ELSE Head(bytes) + (256 * letoh(Tail(bytes)))

\* a path as the bytes of its string: the mount is one character, the digit
\* of its backend
PathBytes(path) == <<48 + path[1]>> \o path[2]
PathOf(bytes) == <<Head(bytes) - 48, Tail(bytes)>>

\* entry->flags as backend_create_object and backend_manager_scan set it
EntryFlags(eph) == IF eph THEN INDEX_FLAG_EPHEMERAL ELSE INDEX_FLAG_PERSISTENT

\* the four bytes between header.backend_id and header.num_entries, which
\* the code never writes: whatever the stack held
Pads == {<<0, 0, 0, 0>>, <<192, 85, 0, 0>>}

\* the bytes backend_index_save writes: the header, then the chains of the
\* buckets in ascending order, each from its head
backend_index_save(M, bid, pad) ==
    LET RECURSIVE Chain(_, _)
        Chain(e, fuel) ==
            IF e = NULL \/ fuel = 0 THEN <<>>
            ELSE htole(Len(M.ent[e].uri), 2) \o M.ent[e].uri
                   \o htole(Len(PathBytes(M.ent[e].path)), 2)
                   \o PathBytes(M.ent[e].path)
                   \o htole(M.ent[e].size_bytes, 8)
                   \o htole(0, 8)
                   \o htole(EntryFlags(M.ent[e].eph), 4)
                   \o Chain(M.ent[e].next, fuel - 1)
        RECURSIVE Buckets(_)
        Buckets(S) ==
            IF S = {} THEN <<>>
            ELSE Chain(M.bb[bid][Min(S)], MaxEntries) \o Buckets(S \ {Min(S)})
    IN INDEX_MAGIC \o htole(INDEX_VERSION, 2) \o htole(bid, 4) \o pad
         \o htole(M.bnum[bid], 8) \o htole(BNumBuckets, 8)
         \o Buckets(BBuckets)

\* backend_index_load of the file's bytes (none: no file) into the index of
\* backend bid; ret is the number of entries loaded
backend_index_load(M, bid, bytes) ==
    LET Cut(s, from, n) == SubSeq(s, from, from + n - 1)
        RECURSIVE Read(_, _, _, _)
        Done(MM, loaded) == [M |-> [MM EXCEPT !.dirty[bid] = 0], ret |-> loaded]
        Read(MM, rest, left, loaded) ==
            IF left = 0 \/ Len(rest) < 2 THEN Done(MM, loaded)
            ELSE LET uri_len == letoh(Cut(rest, 1, 2))
                     at_path == 3 + uri_len
                 IN IF Len(rest) < at_path + 1 THEN Done(MM, loaded)
                    ELSE LET path_len == letoh(Cut(rest, at_path, 2))
                             at_meta == at_path + 2 + path_len
                         IN IF Len(rest) < at_meta - 1 \/ FreeSlots(MM) = {}
                            THEN Done(MM, loaded)
                            ELSE IF Len(rest) < at_meta + 19
                            THEN [M |-> [MM EXCEPT !.st = "ub"], ret |-> loaded]
                            ELSE LET c == index_entry_create(
                                              MM, Cut(rest, 3, uri_len), bid,
                                              PathOf(Cut(rest, at_path + 2, path_len)))
                                     M1 == [c.M EXCEPT
                                              !.ent[c.entry].size_bytes =
                                                  letoh(Cut(rest, at_meta, 8)),
                                              !.ent[c.entry].eph =
                                                  letoh(Cut(rest, at_meta + 16, 4))
                                                     % 2 = 1]
                                 IN Read(backend_index_insert(M1, bid, c.entry),
                                         SubSeq(rest, at_meta + 20, Len(rest)),
                                         left - 1, loaded + 1)
    IN IF bytes = <<>> \/ Len(bytes) < 32 THEN [M |-> M, ret |-> -1]
       ELSE IF Cut(bytes, 1, 6) # INDEX_MAGIC THEN [M |-> M, ret |-> -1]
       ELSE IF letoh(Cut(bytes, 7, 2)) # INDEX_VERSION THEN [M |-> M, ret |-> -1]
       ELSE Read(M, SubSeq(bytes, 33, Len(bytes)), letoh(Cut(bytes, 17, 8)), 0)

\* the memory of a process that has just created its manager, on the files
\* a process before it left
FreshMem(M) ==
    [M EXCEPT !.ent = [e \in EntryIds |-> NoEntry],
              !.gb = [b \in GBuckets |-> NULL],
              !.bb = [i \in BackendIds |-> [b \in BBuckets |-> NULL]],
              !.gnum = 0,
              !.bnum = [i \in BackendIds |-> 0],
              !.dirty = [i \in BackendIds |-> 0],
              !.object_count = [i \in BackendIds |-> 0],
              !.total_objects = 0,
              !.used_bytes = [i \in BackendIds |-> 0],
              !.total_bytes = 0,
              !.fdt = [f \in Fds |-> ClosedFd],
              !.st = "run"]

\* backend_manager_register of backend bid on a mount whose snapshot file
\* holds bytes: the entries loaded go into the backend's index and nowhere else
backend_manager_register(M, bid, bytes) == backend_index_load(M, bid, bytes).M

\* the entries of backend bid's index as the snapshot records them
Recorded(M, bid) ==
    LET RECURSIVE Chain(_, _)
        Chain(e, fuel) ==
            IF e = NULL \/ fuel = 0 THEN {}
            ELSE {[uri |-> M.ent[e].uri, path |-> M.ent[e].path,
                   size_bytes |-> M.ent[e].size_bytes, mtime |-> 0,
                   flags |-> EntryFlags(M.ent[e].eph)]}
                   \cup Chain(M.ent[e].next, fuel - 1)
    IN UNION {Chain(M.bb[bid][b], MaxEntries) : b \in BBuckets}

\* backend bid's index holds what its entry count says: allocated entries
\* of that backend, each once
Intact(M, bid) ==
    LET RECURSIVE Chain(_, _)
        Chain(e, fuel) ==
            IF e = NULL \/ fuel = 0 THEN <<>>
            ELSE IF ~M.ent[e].alloc THEN <<NULL>>
            ELSE <<e>> \o Chain(M.ent[e].next, fuel - 1)
        RECURSIVE All(_)
        All(S) == IF S = {} THEN <<>>
                  ELSE Chain(M.bb[bid][Min(S)], MaxEntries + 1) \o All(S \ {Min(S)})
    IN /\ Len(All(BBuckets)) = M.bnum[bid]
       /\ \A k \in 1 .. Len(All(BBuckets)) :
             /\ All(BBuckets)[k] # NULL
             /\ M.ent[All(BBuckets)[k]].backend_id = bid
             /\ BBucket(M.ent[All(BBuckets)[k]].uri) \in BBuckets
             /\ \A j \in 1 .. Len(All(BBuckets)) :
                   All(BBuckets)[j] = All(BBuckets)[k] => j = k

\* a save of one backend's index into its snapshot file
SnapshotSave ==
    /\ st = "run"
    /\ \E bid \in BackendIds, pad \in Pads :
         /\ Intact(Mem, bid)
         /\ snap' = [snap EXCEPT ![bid] = backend_index_save(Mem, bid, pad)]
         /\ dirty' = [dirty EXCEPT ![bid] = 0]
    /\ UNCHANGED <<backends, default_backend_id, ephemeral_backend_id, ent, gb, bb,
                   gnum, bnum, object_count, total_objects, used_bytes, total_bytes,
                   fdt, fs, ino, st, handles, life, last, trip, ops, threadVars,
                   wireVars, work, cache>>

\* the process ends and a new one registers the backends on the same mounts
Register ==
    /\ Running
    /\ LET Held(bytes) == IF bytes = <<>> THEN 0 ELSE letoh(SubSeq(bytes, 17, 24))
       IN Held(snap[0]) + Held(snap[1]) <= MaxEntries
    /\ Store(backend_manager_register(
                 backend_manager_register(FreshMem(Mem), 0, snap[0]), 1, snap[1]),
             [h \in HandleIds |-> NoHandle],
             [NoLast EXCEPT !.op = "register"], life, NoTrip)
    /\ UNCHANGED <<threadVars, wireVars, serviceVars>>

SnapNext ==
    \/ Create
    \/ UpdateSize
    \/ Get
    \/ SnapshotSave
    \/ Register

SnapSpec == Init /\ [][SnapNext]_vars

\* backend_index_save by thread t, statement by statement, beside calls of
\* other threads: it takes no lock. The temporary file is the thread's own
\* here: one save of a backend at a time (two would share the path
\* "<index file>.tmp"). The chains are written in one step.
SaveSteps(t) ==
    /\ st = "run"
    /\ \/ /\ work[t].pc = "idle" /\ ~work[t].done /\ Running
          /\ ops' = ops + 1
          /\ \E bid \in BackendIds, pad \in Pads :
               /\ \A o \in Threads : work[o].pc = "idle"
               /\ work' = [work EXCEPT
                             ![t] = [IdleWork EXCEPT
                                       !.pc = "save_entries", !.backend = bid,
                                       !.tmp = SubSeq(backend_index_save(Mem, bid, pad),
                                                      1, 32)]]
               /\ UNCHANGED <<snap, dirty>>
       \/ /\ work[t].pc = "save_entries"
          /\ \E bytes \in {backend_index_save(Mem, work[t].backend,
                                               SubSeq(work[t].tmp, 13, 16))} :
               work' = [work EXCEPT ![t].pc = "save_rename",
                                    ![t].tmp = @ \o SubSeq(bytes, 33, Len(bytes))]
          /\ UNCHANGED <<snap, dirty, ops>>
       \/ /\ work[t].pc = "save_rename"
          /\ snap' = [snap EXCEPT ![work[t].backend] = work[t].tmp]
          /\ work' = [work EXCEPT ![t].pc = "save_clear", ![t].tmp = <<>>]
          /\ UNCHANGED <<dirty, ops>>
       \/ /\ work[t].pc = "save_clear"
          /\ dirty' = [dirty EXCEPT ![work[t].backend] = 0]
          /\ work' = [work EXCEPT ![t] = [IdleWork EXCEPT !.done = TRUE]]
          /\ UNCHANGED <<snap, ops>>
    /\ UNCHANGED <<backends, default_backend_id, ephemeral_backend_id, ent, gb, bb,
                   gnum, bnum, object_count, total_objects, used_bytes, total_bytes,
                   fdt, fs, ino, st, handles, life, last, trip, threadVars,
                   wireVars, cache>>

SaveNext ==
    \/ Create
    \/ UpdateSize
    \/ \E t \in Threads : SaveSteps(t)

SaveSpec == Init /\ [][SaveNext]_vars

(***************************************************************************)
(* Placement of new objects (backend.c): a manager whose backends are      *)
(* registered, with or without designated backends                         *)
(***************************************************************************)
\* a variant that accepts any registered backend as the default
backend_manager_set_default_unchecked(M, backend_id) ==
    IF backend_manager_get_backend(M, backend_id) < 0 THEN [M |-> M, ret |-> -1]
    ELSE [M |-> [M EXCEPT !.default_backend_id = backend_id], ret |-> 0]

backend_manager_set_default(M, backend_id) ==
    IF backend_manager_get_backend(M, backend_id) < 0 THEN [M |-> M, ret |-> -1]
    ELSE IF "EPHEMERAL_ONLY" \in BackendFlags(M, backend_id) THEN [M |-> M, ret |-> -1]
    ELSE [M |-> [M EXCEPT !.default_backend_id = backend_id], ret |-> 0]

backend_manager_set_ephemeral(M, backend_id) ==
    IF backend_manager_get_backend(M, backend_id) < 0 THEN [M |-> M, ret |-> -1]
    ELSE IF "EPHEMERAL_ONLY" \notin BackendFlags(M, backend_id)
         THEN [M |-> M, ret |-> -1]
    ELSE [M |-> [M EXCEPT !.ephemeral_backend_id = backend_id], ret |-> 0]

\* mgr->cache_backend_id is the field cache_backend_id of the promoter's record c
backend_manager_set_cache(M, c, backend_id) ==
    IF backend_manager_get_backend(M, backend_id) < 0 THEN [cache |-> c, ret |-> -1]
    ELSE IF M.backends[backend_id + 1].type # "memory" THEN [cache |-> c, ret |-> -1]
    ELSE [cache |-> [c EXCEPT !.cache_backend_id = backend_id], ret |-> 0]

backend_set_enabled(M, backend_id, enabled) ==
    IF backend_manager_get_backend(M, backend_id) < 0 THEN M
    ELSE [M EXCEPT !.backends[backend_id + 1].flags =
                       IF enabled THEN @ \cup {"ENABLED"} ELSE @ \ {"ENABLED"}]

\* a call that configures the manager
Configure ==
    /\ st = "run"
    /\ \E backend_id \in 0 .. Len(backends), enabled \in BOOLEAN :
         \E M \in {backend_manager_set_default(Mem, backend_id).M,
                   backend_manager_set_ephemeral(Mem, backend_id).M,
                   backend_set_enabled(Mem, backend_id, enabled)} :
            /\ M # Mem
            /\ backends' = M.backends
            /\ default_backend_id' = M.default_backend_id
            /\ ephemeral_backend_id' = M.ephemeral_backend_id
            /\ last' = NoLast
    /\ UNCHANGED <<ent, gb, bb, gnum, bnum, dirty, object_count, total_objects, used_bytes,
                   total_bytes, fdt, fs, ino, st, handles, life, trip, ops,
                   threadVars, wireVars, serviceVars>>

\* backend_create_object with any hint, registered or not
PlaceCreate ==
    /\ Running
    /\ FreeHandles # {} /\ FreeSlots(Mem) # {}
    /\ FreeFds(Mem) # {} /\ FreeInodes(Mem) # {}
    /\ \E uri \in URIs, hint \in -1 .. Len(backends), ephemeral \in BOOLEAN :
         \E r \in {backend_create_object(Mem, [uri |-> uri, backend_id |-> hint,
                                                ephemeral |-> ephemeral])},
            h \in {Min(FreeHandles)} :
            Commit(r.M,
                   IF r.ret = 0 THEN [handles EXCEPT ![h] = NewHandle(r.ref)]
                                ELSE handles,
                   [op |-> "create", uri |-> uri, arg |-> hint, ret |-> r.ret,
                    body |-> <<IF ephemeral THEN 1 ELSE 0>>, src |-> r.ref.entry],
                   IF r.ret = 0 THEN [life EXCEPT ![uri] = "present"] ELSE life,
                   NoTrip)

PlaceInit ==
    \E default \in {-1, 1}, ephemeral \in {-1, 0} : InitDesignated(default, ephemeral, 0)

PlaceNext ==
    \/ Configure
    \/ PlaceCreate
    \/ Delete

PlaceSpec == PlaceInit /\ [][PlaceNext]_vars

\* one program: objects are made, written through their handles and their
\* handles released, and made again under the same names
RecreateNext ==
    \/ PlaceCreate
    \/ Write
    \/ Release

RecreateSpec == Init /\ [][RecreateNext]_vars

(***************************************************************************)
(* Designation of the default, ephemeral and cache backends (backend.c),   *)
(* from a manager that has its backends registered and none designated     *)
(***************************************************************************)
\* one call of backend_manager_set_default / _set_ephemeral / _set_cache with
\* any backend id, registered or not
Designate ==
    /\ st = "run"
    /\ \E backend_id \in -1 .. Len(backends) :
         \/ \E r \in {backend_manager_set_default(Mem, backend_id)} :
               /\ default_backend_id' = r.M.default_backend_id
               /\ last' = [NoLast EXCEPT !.op = "set_default", !.arg = backend_id,
                                         !.ret = r.ret]
               /\ UNCHANGED <<ephemeral_backend_id, cache>>
         \/ \E r \in {backend_manager_set_ephemeral(Mem, backend_id)} :
               /\ ephemeral_backend_id' = r.M.ephemeral_backend_id
               /\ last' = [NoLast EXCEPT !.op = "set_ephemeral", !.arg = backend_id,
                                         !.ret = r.ret]
               /\ UNCHANGED <<default_backend_id, cache>>
         \/ \E r \in {backend_manager_set_cache(Mem, cache, backend_id)} :
               /\ cache' = r.cache
               /\ last' = [NoLast EXCEPT !.op = "set_cache", !.arg = backend_id,
                                         !.ret = r.ret]
               /\ UNCHANGED <<default_backend_id, ephemeral_backend_id>>
    /\ UNCHANGED <<backends, ent, gb, bb, gnum, bnum, dirty, object_count, total_objects,
                   used_bytes, total_bytes, fdt, fs, ino, st, handles, life, trip,
                   ops, threadVars, wireVars, work, snap>>

DesignateInit == InitDesignated(-1, -1, -1)

DesignateNext ==
    \/ Designate
    \/ Configure

DesignateSpec == DesignateInit /\ [][DesignateNext]_vars

(***************************************************************************)
(* Payload descriptors (metadata_schema.c, backend.c)                      *)
(***************************************************************************)
\* validate_variant: 0 and whether the variant counts as primary, or -1
validate_variant(variant) ==
    IF variant.variant_id = <<>> THEN -1
    ELSE IF variant.logical_length = 0 THEN -1
    ELSE IF variant.storage_length = 0 THEN -1
    ELSE IF variant.encoding = OBJM_ENCODING.IDENTITY
            /\ variant.storage_length < variant.logical_length THEN -1
    ELSE IF variant.encoding \notin {OBJM_ENCODING.IDENTITY, OBJM_ENCODING.GZIP,
                                     OBJM_ENCODING.BROTLI, OBJM_ENCODING.ZSTD,
                                     OBJM_ENCODING.CUSTOM} THEN -1
    ELSE IF BitAnd(variant.capabilities, OBJM_VCAP.IDENTITY) # 0
            /\ variant.encoding # OBJM_ENCODING.IDENTITY THEN -1
    ELSE IF BitAnd(variant.capabilities, OBJM_VCAP.GZIP) # 0
            /\ variant.encoding # OBJM_ENCODING.GZIP THEN -1
    ELSE IF BitAnd(variant.capabilities, OBJM_VCAP.RANGE_READY) # 0
            /\ variant.range_granularity = 0 THEN -1
    ELSE 0

\* a variant that accepts any descriptor with at least one primary variant
objm_payload_descriptor_validate_some_primary(descriptor) ==
    LET RECURSIVE Loop(_, _)
        Loop(i, primary_count) ==
            IF i > descriptor.variant_count
            THEN (IF primary_count = 0 THEN -1 ELSE 0)
            ELSE IF validate_variant(descriptor.variants[i]) < 0 THEN -1
            ELSE Loop(i + 1, IF descriptor.variants[i].is_primary # 0
                             THEN primary_count + 1 ELSE primary_count)
    IN IF descriptor.version # OBJM_PAYLOAD_DESCRIPTOR_VERSION THEN -1
       ELSE IF descriptor.variant_count = 0 THEN -1
       ELSE IF descriptor.variant_count > OBJM_MAX_VARIANTS THEN -1
       ELSE Loop(1, 0)

objm_payload_descriptor_validate(descriptor) ==
    LET RECURSIVE Loop(_, _)
        Loop(i, primary_count) ==
            IF i > descriptor.variant_count
            THEN (IF primary_count = 0 THEN -1
                  ELSE IF primary_count > 1 THEN -1
                  ELSE 0)
            ELSE IF validate_variant(descriptor.variants[i]) < 0 THEN -1
            ELSE Loop(i + 1, IF descriptor.variants[i].is_primary # 0
                             THEN primary_count + 1 ELSE primary_count)
    IN IF descriptor.version # OBJM_PAYLOAD_DESCRIPTOR_VERSION THEN -1
       ELSE IF descriptor.variant_count = 0 THEN -1
       ELSE IF descriptor.variant_count > OBJM_MAX_VARIANTS THEN -1
       ELSE Loop(1, 0)

backend_set_payload_metadata(M, uri, payload) ==
    LET Looked(l) ==
            IF l.ret < 0 THEN [M |-> l.M, ret |-> -1]
            ELSE [M |-> fd_ref_release(
                            backend_mark_index_dirty(
                                index_entry_set_payload(l.M, l.ref.entry, payload),
                                backend_manager_get_backend(
                                    l.M, l.M.ent[l.ref.entry].backend_id)),
                            l.ref),
                  ret |-> 0]
    IN IF objm_payload_descriptor_validate(payload) < 0 THEN [M |-> M, ret |-> -1]
       ELSE Looked(global_index_lookup(M, uri))

backend_get_payload_metadata(M, uri) ==
    LET Looked(l) ==
            IF l.ret < 0 THEN [M |-> l.M, ret |-> -1, payload_out |-> NoPayload]
            ELSE [M |-> fd_ref_release(l.M, l.ref), ret |-> 0,
                  payload_out |-> index_entry_get_payload(l.M.ent[l.ref.entry])]
    IN Looked(global_index_lookup(M, uri))

\* the variants callers pass: one that meets every rule, and variants that
\* each break or sit at the edge of one rule
VariantShapes ==
    LET Good == [variant_id |-> <<118>>, capabilities |-> 0,
                 encoding |-> OBJM_ENCODING.IDENTITY, logical_length |-> 1,
                 storage_length |-> 1, range_granularity |-> 0, is_primary |-> 1]
    IN {Good,
        [Good EXCEPT !.is_primary = 0],
        [Good EXCEPT !.is_primary = 2],
        [Good EXCEPT !.variant_id = <<>>],
        [Good EXCEPT !.logical_length = 0],
        [Good EXCEPT !.storage_length = 0],
        [Good EXCEPT !.logical_length = 2],
        [Good EXCEPT !.logical_length = 2, !.encoding = OBJM_ENCODING.GZIP,
                     !.capabilities = OBJM_VCAP.GZIP],
        [Good EXCEPT !.encoding = 4],
        [Good EXCEPT !.capabilities = OBJM_VCAP.IDENTITY,
                     !.encoding = OBJM_ENCODING.GZIP],
        [Good EXCEPT !.capabilities = OBJM_VCAP.GZIP],
        [Good EXCEPT !.capabilities = OBJM_VCAP.RANGE_READY],
        [Good EXCEPT !.capabilities = OBJM_VCAP.RANGE_READY,
                     !.range_granularity = 1, !.is_primary = 0]}

\* the descriptors callers pass: a wrong version, no variant, more than
\* OBJM_MAX_VARIANTS, one active variant of every shape, and two active
\* variants of which the second has every shape
PayloadShapes ==
    LET Good == CHOOSE v \in VariantShapes :
                    validate_variant(v) = 0 /\ v.is_primary = 1 /\ v.capabilities = 0
        Desc(version, variant_count, first, second) ==
            [version |-> version, variant_count |-> variant_count,
             manifest_flags |-> 0,
             variants |-> [i \in 1 .. VariantSlots |->
                              IF i = 1 THEN first
                              ELSE IF i = 2 THEN second ELSE NoVariant]]
    IN {Desc(OBJM_PAYLOAD_DESCRIPTOR_VERSION + 1, 1, Good, NoVariant),
        Desc(OBJM_PAYLOAD_DESCRIPTOR_VERSION, 0, Good, NoVariant),
        Desc(OBJM_PAYLOAD_DESCRIPTOR_VERSION, OBJM_MAX_VARIANTS + 1, Good, NoVariant)}
         \cup {Desc(OBJM_PAYLOAD_DESCRIPTOR_VERSION, 1, first, second) :
                  first \in VariantShapes, second \in {NoVariant, Good}}
         \cup {Desc(OBJM_PAYLOAD_DESCRIPTOR_VERSION, 2, first, second) :
                  first \in {Good, [Good EXCEPT !.is_primary = 0]},
                  second \in VariantShapes}

SetPayload ==
    /\ Running
    /\ FreeFds(Mem) # {}
    /\ \E uri \in URIs, payload \in PayloadShapes :
         \E r \in {backend_set_payload_metadata(Mem, uri, payload)} :
            Commit(r.M, handles,
                   [NoLast EXCEPT !.op = "set_payload", !.uri = uri, !.ret = r.ret,
                                  !.body = payload],
                   life, NoTrip)

PayloadNext ==
    \/ Create
    \/ UpdateSize
    \/ SetPayload

PayloadSpec == Init /\ [][PayloadNext]_vars

(***************************************************************************)
(* Properties                                                              *)
(***************************************************************************)
\* C1: no non-ephemeral object sits on an ephemeral-only backend and no
\* ephemeral object sits on a backend that is not ephemeral-only.
C1_PlacementMatchesEphemeral ==
    \A e \in EntryIds :
        ent[e].alloc =>
            (ent[e].eph <=> "EPHEMERAL_ONLY" \in BackendFlags(Mem, ent[e].backend_id))

\* C2: every URI that was created or inserted and not deleted since is found
\* by a lookup, whatever other URIs were inserted after it.
C2_CreatedIsFound ==
    \A u \in URIs : life[u] = "present" => Lookup(u) # NULL

\* C3: after create(u), writes through the create handle and its release, the
\* descriptor of the handle get(u) returns reads back exactly the bytes written.
C3_ReadBackAfterRelease ==
    trip.stage = "got" => trip.read = trip.data

C3_Witness ==
    trip.stage = "got" /\ Len(trip.data) = MaxLen /\ trip.h # 0

\* C4: once delete(u) has succeeded, u is not found until it is created again.
C4_DeletedIsGone ==
    \A u \in URIs : life[u] = "deleted" => Lookup(u) = NULL

\* C5: after a successful migrate(u, A -> B) the file of u on B exists and
\* holds the body u had before, and the entry of u names B and that file.
C5_MigratePreservesBody ==
    (last.op = "migrate" /\ last.ret = 0) =>
        /\ fs[MountPath(last.arg, last.uri)] # 0
        /\ ino[fs[MountPath(last.arg, last.uri)]] = last.body
        /\ Lookup(last.uri) # NULL
        /\ ent[Lookup(last.uri)].backend_id = last.arg
        /\ ent[Lookup(last.uri)].path = MountPath(last.arg, last.uri)

\* C6: a migrate call that fails leaves the object where it was: the entry's
\* backend id and path, the chains of both kinds of index and the object
\* counters are as before the call, and the source file is still there with
\* its body.
C6_FailedMigrateKeepsSource ==
    [][(last'.op = "migrate" /\ last'.ret # 0 /\ last'.uri # <<>>) =>
         /\ Lookup(last'.uri) # NULL
         /\ ent'[Lookup(last'.uri)].alloc
         /\ ent'[Lookup(last'.uri)].uri = last'.uri
         /\ ent'[Lookup(last'.uri)].backend_id = ent[Lookup(last'.uri)].backend_id
         /\ ent'[Lookup(last'.uri)].path = ent[Lookup(last'.uri)].path
         /\ gb' = gb /\ bb' = bb
         /\ \A e \in EntryIds : ent'[e].next = ent[e].next
         /\ gnum' = gnum /\ bnum' = bnum
         /\ object_count' = object_count /\ total_objects' = total_objects
         /\ fs[ent[Lookup(last'.uri)].path] # 0 =>
               /\ fs'[ent[Lookup(last'.uri)].path] = fs[ent[Lookup(last'.uri)].path]
               /\ ino'[fs[ent[Lookup(last'.uri)].path]]
                     = ino[fs[ent[Lookup(last'.uri)].path]]]_vars

\* a migrate call to another backend has failed after the checks, at the copy,
\* on an object whose file exists
C6_Witness ==
    /\ last.op = "migrate" /\ last.ret # 0 /\ last.uri # <<>>
    /\ Lookup(last.uri) # NULL
    /\ ~ent[Lookup(last.uri)].eph
    /\ ent[Lookup(last.uri)].backend_id # last.arg
    /\ fs[ent[Lookup(last.uri)].path] # 0

\* C7: while a handle is held, the fd_refcount of its entry is at least 1 and
\* no operation has closed the handle's descriptor.
C7_HeldDescriptorStaysOpen ==
    \A h \in HeldHandles :
        (~handles[h].dead /\ handles[h].fd >= 0) =>
            handles[h].live /\ ent[handles[h].entry].fd_refcount >= 1

\* C8: the entry_refcount of an entry is the number of indexes it is linked in
\* plus the number of handles held on it.
C8_EntryRefcountCounts ==
    \A e \in EntryIds :
        ent[e].alloc =>
            ent[e].entry_refcount = Memberships(e) + Cardinality(HandlesOn(e))

\* C9: every entry linked in the global index is linked in the index of its
\* backend and in no other, and the counters equal the numbers linked.
C9_IndexesAgree ==
    /\ \A e \in GlobalLinked :
          {i \in BackendIds : e \in BackendLinked(i)} = {ent[e].backend_id}
    /\ gnum = Cardinality(GlobalLinked)
    /\ total_objects = Cardinality(GlobalLinked)
    /\ \A i \in BackendIds : /\ bnum[i] = Cardinality(BackendLinked(i))
                             /\ object_count[i] = Cardinality(BackendLinked(i))

\* C10: a handle that was usable when its object was migrated stays usable,
\* its descriptor open, until it is released.
C10_HandleSurvivesMigration ==
    \A h \in HeldHandles :
        (handles[h].mig /\ ~handles[h].dead) =>
            handles[h].live /\ IsOpen(Mem, handles[h].fd)

\* C11: concurrent migrations never block each other for good: no two threads
\* each hold one backend's write lock while waiting for the lock the other
\* holds, so every call can go on to return
C11_MigrationsNeverDeadlock ==
    ~ \E t1 \in Threads, t2 \in Threads :
          /\ t1 # t2
          /\ thr[t1].pc = "m_lock_dst" /\ rwlock[thr[t1].target] = t2
          /\ thr[t2].pc = "m_lock_dst" /\ rwlock[thr[t2].target] = t1

\* C12: the handle a get returns while migrations run was opened through a
\* live path, its path and backend id are from the same side, and a get that
\* started after a migration released the locks (and before another one
\* began its updates) has its descriptor on the destination file
C12_GetSeesOneSide ==
    \A t \in Threads :
        (thr[t].pc = "held" /\ thr[t].op = "get") =>
            /\ ~thr[t].torn
            /\ thr[t].seen_path = thr[t].seen_id
            /\ (thr[t].exp # -1 => thr[t].fd = thr[t].exp)

\* C13: while threads only look an entry up and release, its entry_refcount
\* is the value it had before (one from its creation, one for the creator's
\* handle, one per backend index) plus the number of threads that looked it
\* up and have not released yet: plus N while N handles are held, and back
\* to the old value when all are released
C13_LookupRefcountExact ==
    \A u \in ThreadURIs :
        (obj[u].alloc /\ ~obj[u].moved) =>
            obj[u].entry_refcount =
                1 + 1 + Cardinality(obj[u].in) + Cardinality(Holders(u))

\* every thread holds a handle from a lookup of the same URI
C13_Witness ==
    \E u \in ThreadURIs :
        /\ obj[u].alloc /\ ~obj[u].moved
        /\ \A t \in Threads : thr[t].pc = "held" /\ thr[t].uri = u
        /\ obj[u].entry_refcount = 3 + NThreads


\* C14: for every response without segments that server.c's handlers put on
\* the wire, an SCM_RIGHTS message follows the header if and only if the
\* client goes on to read one (status OK and content_len 0)
C14_DescriptorFollowsIffRead ==
    srv.kind = "server" =>
        \A i \in 1 .. Len(s2c) :
            "rights" \in DOMAIN s2c[i] =>
                ((s2c[i].rights # <<>>)
                    <=> objm_client_recv_response(cli, s2c[i]).reads_fd)


\* C15: with out-of-order replies negotiated, every reply the client has
\* read off the socket was either handed to the caller that asked for its id
\* or is parked under its id, so that a later objm_client_recv_response_for
\* returns it without a socket read
C15_RepliesReturnedOrParked ==
    BitAnd(cli.capabilities, OBJM_CAP_OOO_REPLIES) # 0 =>
        \A request_id \in cli.rd \ cli.done :
            cli.pending_responses[request_id].request_id = request_id


\* C16: once the handshake is over on both sides, client and server hold
\* the same negotiated parameters; after a V2 handshake these are the bitwise
\* AND of the declared capabilities and the smaller of the declared
\* max_pipeline values, and on a connection detected as V1 they are
\* capabilities 0 and pipeline 1
C16_BothSidesHoldNegotiated ==
    LET Bit(v, b) == (v \div (2 ^ b)) % 2
        declared == ServerHello(srv.kind)
    IN (cli.st \in {"ready", "wait", "closing", "closed"}
          /\ srv.st \in {"loop", "done", "dead"}) =>
           /\ cli.capabilities = srv.capabilities
           /\ cli.max_pipeline = srv.max_pipeline
           /\ srv.version = cli.version
           /\ IF srv.version = 1
              THEN srv.capabilities = 0 /\ srv.max_pipeline = 1
              ELSE /\ \A b \in 0 .. 15 :
                        Bit(srv.capabilities, b) = 1
                            <=> (Bit(cli.hello.capabilities, b) = 1
                                   /\ Bit(declared.capabilities, b) = 1)
                   /\ srv.max_pipeline <= cli.hello.max_pipeline
                   /\ srv.max_pipeline <= declared.max_pipeline
                   /\ srv.max_pipeline \in {cli.hello.max_pipeline,
                                            declared.max_pipeline}

\* a client declaring OOO|PIPELINING and pipeline 50 has shaken hands with a
\* server declaring OOO|PIPELINING|SEGMENTED and pipeline 100
C16_Witness ==
    /\ cli.st = "ready" /\ cli.version = OBJM_VERSION_2
    /\ cli.hello = [capabilities |-> 3, max_pipeline |-> 50]
    /\ srv.st = "loop" /\ srv.kind = "example"
    /\ cli.capabilities = 3 /\ cli.max_pipeline = 50


\* C17: when server.c's connection loop has been left on a CLOSE frame, a
\* CLOSE_ACK frame was written for the client waiting in objm_client_close
C17_CloseIsAcknowledged ==
    (srv.kind = "server" /\ srv.st = "done" /\ srv.why = "close") =>
        \/ cli.st = "closed"
        \/ \E i \in 1 .. Len(s2c) : s2c[i].b0 = OBJM_MSG.CLOSE_ACK


\* C18: when the connection loop is left because a request frame was
\* rejected, the last thing the server wrote is a response with status
\* URI_TOO_LONG (URI length above 4096) or PROTOCOL_ERROR (unknown message
\* type)
C18_RejectionIsAnswered ==
    LET Status(f) == IF srv.version = 1 THEN f.b0 ELSE f.status
        Expected(f) == IF "uri_len" \in DOMAIN f /\ ntoh(f.uri_len) > 4096
                       THEN OBJM_STATUS.URI_TOO_LONG
                       ELSE OBJM_STATUS.PROTOCOL_ERROR
    IN (srv.kind = "server" /\ srv.why = "rejected") =>
           /\ Len(wlog) = 2
           /\ wlog[2].ev = "response"
           /\ Status(wlog[2].frame) = Expected(wlog[1].frame)


C21_SegmentedNeedsCapability ==
    wlog # <<>> /\ wlog[1].ev \in {"send", "forge"} =>
        /\ ( /\ wlog[1].ev = "send"
             /\ BitAnd(srv.capabilities, OBJM_CAP_SEGMENTED_DELIVERY) = 0 )
           => wlog[1].ret = -1 /\ wlog[1].out = <<>>
        /\ ( /\ wlog[1].out # <<>> /\ s2c = <<>>
             /\ wlog[1].out[1].b0 = OBJM_MSG.SEGMENTED_RESPONSE
             /\ cli.version = OBJM_VERSION_2 /\ cli.st # "wait"
             /\ BitAnd(cli.capabilities, OBJM_CAP_SEGMENTED_DELIVERY) = 0 )
           => cli.st = "failed"

\* C22: a table whose segments are of a known type and have their bytes and
\* descriptors at hand is accepted, by the sender (the table is written) and
\* by the receiver (the receive succeeds), exactly when every INLINE segment
\* has copy_length = logical_length, every FD or SPLICE segment has
\* copy_length = 0 and storage_length >= logical_length, every REUSE_FD
\* segment comes after a segment that supplied a descriptor, and FIN is on
\* the last segment and on no earlier one.
C22_TableAcceptedIffWellFormed ==
    LET segs == wlog[1].resp.segments
        n == Len(segs)
        HasFd(i) == segs[i].type \in {OBJM_SEG.TYPE_FD, OBJM_SEG.TYPE_SPLICE}
        Reuse(i) == BitAnd(segs[i].flags, OBJM_SEG.FLAG_REUSE_FD) # 0
        Fin(i) == BitAnd(segs[i].flags, OBJM_SEG.FLAG_FIN) # 0
        AtHand == \A i \in 1 .. n :
                     \/ /\ segs[i].type = OBJM_SEG.TYPE_INLINE
                        /\ Len(segs[i].inline_data) = segs[i].copy_length
                     \/ HasFd(i) /\ IsOpen(Mem, segs[i].fd)
        Conforms ==
            /\ \A i \in 1 .. n :
                 /\ segs[i].type = OBJM_SEG.TYPE_INLINE
                    => segs[i].copy_length = segs[i].logical_length
                 /\ HasFd(i) => /\ segs[i].copy_length = 0
                                /\ segs[i].storage_length >= segs[i].logical_length
                 /\ Reuse(i) => \E j \in 1 .. (i - 1) : HasFd(j) /\ ~Reuse(j)
            /\ Fin(n)
            /\ \A i \in 1 .. (n - 1) : ~Fin(i)
        Negotiated(conn) ==
            /\ conn.version = OBJM_VERSION_2
            /\ BitAnd(conn.capabilities, OBJM_CAP_SEGMENTED_DELIVERY) # 0
    IN wlog # <<>> /\ wlog[1].ev \in {"send", "forge"} /\ AtHand =>
        /\ wlog[1].ev = "send" /\ Negotiated(srv)
           => ("table" \in DOMAIN wlog[1].out[1] <=> Conforms)
        /\ ( /\ wlog[1].out # <<>> /\ s2c = <<>> /\ Negotiated(cli)
             /\ "table" \in DOMAIN wlog[1].out[1] /\ cli.st # "wait" )
           => (cli.st # "failed" <=> Conforms)

(***************************************************************************)
(* Byte accounting                                                         *)
(***************************************************************************)
\* C28: whenever no call is in progress and the process has not run into
\* undefined behaviour, each backend's used_bytes is the sum of size_bytes
\* over the entries linked in that backend's index, total_bytes is the sum
\* of the backends' used_bytes, and no counter has gone below zero.
C28_BytesAccounted ==
    LET RECURSIVE SizeOf(_)
        SizeOf(S) == IF S = {} THEN 0
                     ELSE LET e == CHOOSE x \in S : TRUE
                          IN ent[e].size_bytes + SizeOf(S \ {e})
        RECURSIVE UsedFrom(_)
        UsedFrom(i) == IF i \notin BackendIds THEN 0
                       ELSE used_bytes[i] + UsedFrom(i + 1)
    IN st = "run" /\ (\A t \in Threads : work[t].pc = "idle") =>
         /\ \A i \in BackendIds :
               used_bytes[i] = SizeOf(BackendLinked(i)) /\ used_bytes[i] >= 0
         /\ total_bytes = UsedFrom(0)


(***************************************************************************)
(* The cache promoter                                                      *)
(***************************************************************************)
\* C23: whenever the promoter runs and the cache backend's utilization is
\* above its high watermark, a state follows in which the utilization is at
\* or below the low watermark (or the promoter has been stopped, or the
\* process has run into undefined behaviour).
C23_EvictsDownToLow ==
    (cache.cache_running = 1 /\ cache.thread \in {"poll", "pass"}
        /\ st = "run" /\ AboveHigh)
      ~> (cache.cache_running = 0 \/ st # "run"
          \/ \E used \in {used_bytes[cache.cache_backend_id]} :
                Utilization(used) <= low_watermark * CacheCapacity)

\* the entries of persistent backends that are as hot as the threshold and
\* whose URI the cache backend does not hold
HotOutside ==
    LET Persistent == {i \in BackendIds :
                          /\ i # cache.cache_backend_id
                          /\ "EPHEMERAL_ONLY" \notin backends[i + 1].flags}
    IN {e \in UNION {BackendLinked(i) : i \in Persistent} :
           /\ index_calculate_hotness(e) >= cache_threshold
           /\ \A c \in BackendLinked(cache.cache_backend_id) :
                 ent[c].uri # ent[e].uri}

\* C24: whenever the promoter runs, the cache backend's utilization is below
\* its low watermark and a persistent backend holds an entry as hot as the
\* threshold whose URI the cache backend does not hold, a state follows in
\* which no such entry is left outside the cache (or the utilization is no
\* longer below the low watermark, or the promoter has been stopped, or the
\* process has run into undefined behaviour).
C24_PromotesHotEntries ==
    (cache.cache_running = 1 /\ cache.thread \in {"poll", "pass"}
        /\ st = "run" /\ BelowLow /\ HotOutside # {})
      ~> (cache.cache_running = 0 \/ st # "run" \/ ~BelowLow \/ HotOutside = {})

\* C25: the promoter's thread tests the flag at most once after
\* backend_stop_caching has cleared it, and every stop of a running promoter
\* returns, with the thread joined and the promoter not running.
C25_StopTerminates ==
    /\ [](cache.polls <= 1)
    /\ (cache.stop = "joining")
         ~> (cache.stop = "returned" /\ cache.thread = "none"
             /\ cache.cache_running = 0)

\* a stop whose thread was in its loop, saw the flag and has been joined
C25_Witness ==
    cache.stop = "returned" /\ cache.thread = "none" /\ cache.polls = 1
    /\ cache.seen # "none"

(***************************************************************************)
(* Snapshots                                                               *)
(***************************************************************************)
\* C26: right after the backends have been registered, a get of every URI
\* that the snapshot file of a backend records succeeds.
C26_SnapshotEntriesFound ==
    last.op = "register" =>
       \A bid \in BackendIds :
          \A r \in Recorded(backend_index_load(FreshMem(Mem), bid, snap[bid]).M, bid) :
             backend_get_object(Mem, r.uri).ret = 0

\* C27: the index of a backend, saved and loaded into a fresh index, has the
\* same set of entries (URI, path, size, mtime, flags), and the save of the
\* loaded index is byte for byte the file it was loaded from.
C27_SnapshotRoundTrips ==
    st = "run" =>
       \A bid \in BackendIds :
          Intact(Mem, bid) =>
             \A pad1 \in Pads, pad2 \in Pads :
                LET file == backend_index_save(Mem, bid, pad1)
                    l == backend_index_load(FreshMem(Mem), bid, file)
                IN /\ l.ret = bnum[bid]
                   /\ Recorded(l.M, bid) = Recorded(Mem, bid)
                   /\ backend_index_save(l.M, bid, pad2) = file

(***************************************************************************)
(* Placement                                                               *)
(***************************************************************************)
\* the backend a request resolves to: the hint if there is one, else the
\* ephemeral or the default backend
C29_Resolved ==
    IF last'.arg >= 0 THEN last'.arg
    ELSE IF last'.body = <<1>> THEN ephemeral_backend_id ELSE default_backend_id

\* C29: a create that succeeds has put its entry and its file on the backend
\* the request resolves to; a create whose request resolves to no backend, to
\* an unregistered one or to a disabled one fails and leaves files and
\* entries as they were.
C29_CreatePlacement ==
    [][last'.op = "create" =>
         /\ last'.ret = 0 =>
               /\ ent'[last'.src].alloc
               /\ ent'[last'.src].uri = last'.uri
               /\ ent'[last'.src].backend_id = C29_Resolved
               /\ ent'[last'.src].path = MountPath(C29_Resolved, last'.uri)
               /\ fs'[MountPath(C29_Resolved, last'.uri)] # 0
         /\ (\/ C29_Resolved < 0
             \/ C29_Resolved >= Len(backends)
             \/ "ENABLED" \notin backends[C29_Resolved + 1].flags) =>
               /\ last'.ret = -1
               /\ fs' = fs /\ ino' = ino /\ ent' = ent /\ gb' = gb /\ bb' = bb
               /\ gnum' = gnum /\ bnum' = bnum]_vars

\* a create without a hint that failed on a disabled default backend, and
\* before it a create that succeeded
C29_Witness ==
    /\ last.op = "create" /\ last.ret = -1 /\ last.arg = -1 /\ last.body = <<0>>
    /\ default_backend_id >= 0
    /\ "ENABLED" \notin backends[default_backend_id + 1].flags
    /\ \E e \in EntryIds : ent[e].alloc

(***************************************************************************)
(* Payload descriptors                                                     *)
(***************************************************************************)
\* C30: backend_set_payload_metadata returns 0 only for a descriptor of the
\* schema version with 1 to 8 active variants that each meet the variant
\* rules and of which exactly one is primary; a call that fails leaves the
\* stored descriptor of the entry as it was; after a call that succeeds
\* backend_get_payload_metadata returns the descriptor passed in.
C30_SetPayloadValidated ==
    [][last'.op = "set_payload" =>
         LET d == last'.body
             e == Lookup(last'.uri)
             Active == 1 .. d.variant_count
             Encodings == {OBJM_ENCODING[n] : n \in DOMAIN OBJM_ENCODING}
             Has(v, bit) == (v.capabilities \div bit) % 2 = 1
             Meets(v) ==
                 /\ v.variant_id # <<>>
                 /\ v.logical_length > 0 /\ v.storage_length > 0
                 /\ v.encoding \in Encodings
                 /\ v.encoding = OBJM_ENCODING.IDENTITY
                      => v.storage_length >= v.logical_length
                 /\ Has(v, OBJM_VCAP.IDENTITY) => v.encoding = OBJM_ENCODING.IDENTITY
                 /\ Has(v, OBJM_VCAP.GZIP) => v.encoding = OBJM_ENCODING.GZIP
                 /\ Has(v, OBJM_VCAP.RANGE_READY) => v.range_granularity > 0
         IN /\ last'.ret = 0 =>
                 /\ d.version = OBJM_PAYLOAD_DESCRIPTOR_VERSION
                 /\ d.variant_count >= 1 /\ d.variant_count <= OBJM_MAX_VARIANTS
                 /\ \A i \in Active : Meets(d.variants[i])
                 /\ Cardinality({i \in Active : d.variants[i].is_primary # 0}) = 1
                 /\ e # NULL
                 /\ backend_get_payload_metadata(Mem', last'.uri).ret = 0
                 /\ backend_get_payload_metadata(Mem', last'.uri).payload_out = d
            /\ last'.ret # 0 => \A x \in EntryIds : ent'[x].payload = ent[x].payload]_vars

\* a descriptor of two variants was accepted for an entry, and one that was
\* rejected came before it
C30_Witness ==
    /\ last.op = "set_payload" /\ last.ret = 0 /\ last.body.variant_count = 2
    /\ ops >= 3
    /\ \E e \in EntryIds : ent[e].alloc /\ ent[e].payload = last.body

\* C31: at all times a designated default backend is not ephemeral-only, a
\* designated ephemeral backend is ephemeral-only and a designated cache
\* backend is of type memory; a set_default / set_ephemeral / set_cache call
\* returns 0 only for a backend that keeps this, and one that returns -1
\* leaves the designation as it was
C31_DesignationsValid ==
    /\ [](/\ default_backend_id >= 0 =>
               /\ default_backend_id < Len(backends)
               /\ "EPHEMERAL_ONLY" \notin backends[default_backend_id + 1].flags
          /\ ephemeral_backend_id >= 0 =>
               /\ ephemeral_backend_id < Len(backends)
               /\ "EPHEMERAL_ONLY" \in backends[ephemeral_backend_id + 1].flags
          /\ cache.cache_backend_id >= 0 =>
               /\ cache.cache_backend_id < Len(backends)
               /\ backends[cache.cache_backend_id + 1].type = "memory")
    /\ [][last'.op \in {"set_default", "set_ephemeral", "set_cache"} =>
           LET id == last'.arg
               registered == id >= 0 /\ id < Len(backends)
               allowed ==
                   /\ registered
                   /\ CASE last'.op = "set_default" ->
                              "EPHEMERAL_ONLY" \notin backends[id + 1].flags
                        [] last'.op = "set_ephemeral" ->
                              "EPHEMERAL_ONLY" \in backends[id + 1].flags
                        [] OTHER -> backends[id + 1].type = "memory"
           IN  /\ last'.ret = (IF allowed THEN 0 ELSE -1)
               /\ last'.ret # 0 =>
                     UNCHANGED <<default_backend_id, ephemeral_backend_id,
                                 cache>>
               /\ last'.ret = 0 =>
                     id = CASE last'.op = "set_default" -> default_backend_id'
                            [] last'.op = "set_ephemeral" -> ephemeral_backend_id'
                            [] OTHER -> cache'.cache_backend_id]_vars

\* a call asked for a designation that would break the rule, after the three
\* backends had been designated
C31_Witness ==
    /\ last.op \in {"set_default", "set_ephemeral", "set_cache"}
    /\ last.arg \in 0 .. (Len(backends) - 1)
    /\ last.ret = -1
    /\ default_backend_id >= 0 /\ ephemeral_backend_id >= 0
    /\ cache.cache_backend_id >= 0

\* C32: a lookup that runs while entries are removed never reads, or takes
\* a reference on, an entry that has been freed
C32_LookupNeverTouchesFreed ==
    \A t \in Threads : work[t].pc # "lookup_freed"

\* C33: while fd_ref_acquire and index_entry_close_fd run on one entry, no
\* handle that a successful acquire returned holds the descriptor that
\* close_fd has taken out of the entry and is closing, and close_fd closes
\* no descriptor that an acquire has counted in fd_refcount
C33_AcquireExcludesClose ==
    \A a \in Threads, c \in Threads :
        ~(/\ work[a].pc = "acquire_held"
          /\ work[c].pc = "close_close"
          /\ work[a].ref.entry = work[c].ref.entry
          /\ work[a].ref.fd = work[c].ref.fd
          /\ ent[work[a].ref.entry].fd_refcount > 0)

\* C34: between calls, an entry whose cached descriptor slot holds a number
\* >= 0 has that descriptor open on the file at its backend_path and
\* fd_refcount > 0: the slot never keeps the number of a closed descriptor
C34_CachedFdIsOpen ==
    \A e \in EntryIds :
        ent[e].alloc /\ ent[e].fd >= 0 =>
            /\ IsOpen(Mem, ent[e].fd)
            /\ fdt[ent[e].fd].ino = fs[ent[e].path]
            /\ ent[e].fd_refcount > 0

\* C35: a backend_create_object call that fails while an object with that
\* URI is in the global index leaves the object as it was: its index entry
\* is unchanged and its file exists with the contents it had
C35_FailedCreateKeepsObject ==
    [][\A e \in {Lookup(last'.uri)} :
          last'.op = "create" /\ last'.ret # 0 /\ e # NULL =>
              /\ ent'[e] = ent[e]
              /\ fs[ent[e].path] # 0
              /\ fs'[ent[e].path] = fs[ent[e].path]
              /\ ino'[fs[ent[e].path]] = ino[fs[ent[e].path]]]_vars

\* C36: an entry's fd_refcount is the number of unreleased handles that hold
\* a descriptor on it, so it is 0 once all its handles are released
C36_FdRefcountCounts ==
    \A e \in EntryIds :
        ent[e].alloc =>
            ent[e].fd_refcount
                = Cardinality({h \in HandlesOn(e) : handles[h].fd >= 0})

\* C37: every call that takes an entry's cached descriptor from open to
\* closed increments fd_generation, and a handle that a call hands out or
\* refreshes records the entry's fd_generation of that moment
C37_GenerationTracksCloses ==
    [][/\ \A e \in EntryIds :
            /\ ent[e].alloc /\ ent'[e].alloc
            /\ ent[e].fd >= 0 /\ IsOpen(Mem, ent[e].fd)
            /\ ent'[e].fd < 0 \/ ~IsOpen(Mem', ent[e].fd)
            => ent'[e].fd_generation > ent[e].fd_generation
       /\ \A h \in HandleIds :
            /\ handles'[h] # NoHandle
            /\ handles'[h].entry # handles[h].entry \/ handles'[h].fd # handles[h].fd
            /\ ent'[handles'[h].entry].alloc
            => handles'[h].generation = ent'[handles'[h].entry].fd_generation]_vars

\* C38: a request that the server answers with a status other than OK leaves
\* the object store as it was: the same files with the same contents, and
\* the same URIs in the global index
C38_RejectedRequestKeepsStore ==
    [][(/\ srv.kind = "server" /\ srv.st = "loop"
        /\ c2s # <<>> /\ c2s' = Tail(c2s)
        /\ Len(wlog') = 2
        /\ (IF srv.version = 1 THEN wlog'[2].frame.b0 ELSE wlog'[2].frame.status)
              # OBJM_STATUS.OK)
       => /\ fs' = fs
          /\ ino' = ino
          /\ \A u \in URIs :
                (ChainFind(Mem', gb'[GBucket(u)], u).e > 0) = (Lookup(u) # NULL)]_vars

\* C39: when objm_server_send_response rejects a response before any of its
\* segment table is written (the table is invalid, a segment lacks its
\* descriptor, or the peer lacks the capability), it has written nothing
\* of that response to the socket
C39_RejectedResponseWritesNothing ==
    (/\ Len(wlog) = 1 /\ wlog[1].ev = "send"
     /\ wlog[1].ret = -1
     /\ \A i \in 1 .. Len(wlog[1].out) : "table" \notin DOMAIN wlog[1].out[i])
    => wlog[1].out = <<>>

\* C40: whenever a backend index's dirty flag is clear, its snapshot file
\* records every completed insert, remove and size change of that index, also
\* those that completed while a save was under way: the file, read back, holds
\* exactly the records the index holds now (no file: no records).
C40_CleanMeansSaved ==
    \A bid \in BackendIds :
       dirty[bid] = 0 =>
          Recorded(backend_index_load(FreshMem(Mem), bid, snap[bid]).M, bid)
             = Recorded(Mem, bid)

====
